---- MODULE Spec2Model ----
(***************************************************************************)
(* rustormy: provider fallback orchestration (App::new / App::run), the    *)
(* configuration validation that precedes it, the shared location          *)
(* resolver (LookUpCity) and the file based geocoding cache.               *)
(*                                                                         *)
(* Conventions                                                             *)
(*  - Option<T> is a sequence of length at most one: None == <<>>,         *)
(*    Some(x) == <<x>>.                                                    *)
(*  - a string that the code inspects character by character (the city)    *)
(*    is a sequence of one-character strings.                              *)
(*  - Result<T, RustormyError> is a record whose field kind is "Ok" or     *)
(*    the name of the RustormyError variant.                               *)
(*  - coordinates are integers in units of 1/10000 degree.                 *)
(***************************************************************************)
EXTENDS Integers, Sequences, FiniteSets, TLC

\* ------------------------------------------------------------------------
\* Bounds of the model
\* ------------------------------------------------------------------------
\* longest configured provider list
MaxProviders == 2
\* number of refresh ticks of a live session that are explored
MaxTicks == 2

\* ------------------------------------------------------------------------
\* Option helpers
\* ------------------------------------------------------------------------
None == <<>>
Some(x) == <<x>>
IsSome(o) == Len(o) = 1
IsNone(o) == Len(o) = 0
Unwrap(o) == o[1]

\* ------------------------------------------------------------------------
\* models.rs: Provider, Language
\* ------------------------------------------------------------------------
Provider == {"OpenMeteo", "OpenWeatherMap", "WorldWeatherOnline", "WeatherApi",
             "WeatherBit", "TomorrowIo", "Yr"}

\* the providers whose key Config::validate checks
KeyProviders == {"OpenWeatherMap", "WorldWeatherOnline", "WeatherApi",
                 "WeatherBit", "TomorrowIo"}

Language == {"en", "ru", "es"}

\* models.rs: enum Units
Units == {"Metric", "Imperial"}

\* Language::code : the code is the tag used for the language here
code(language) == language

\* ------------------------------------------------------------------------
\* Inputs explored
\* ------------------------------------------------------------------------
\* provider lists of length 0..MaxProviders, duplicates allowed
RECURSIVE SeqsUpTo(_, _)
SeqsUpTo(S, n) ==
    IF n = 0 THEN {<<>>}
    ELSE LET shorter == SeqsUpTo(S, n - 1)
         IN  shorter \cup {Append(s, x) : s \in {t \in shorter : Len(t) = n - 1}, x \in S}

\* the providers that occur in the explored lists: one that needs no key and
\* resolves through LookUpCity (with a cache access of its own), two that
\* need a key and resolve through LookUpCity, one that needs a key and sends
\* the configured name, one that needs no key and has its own resolver
ProviderChoices == {"OpenMeteo", "OpenWeatherMap", "WeatherBit", "TomorrowIo", "Yr"}

ProviderLists == SeqsUpTo(ProviderChoices, MaxProviders)

\* api_keys is the set of providers whose key is a non-empty string: every
\* key set, or the key of one provider of the list ps missing
ApiKeyChoices(ps) ==
    {KeyProviders} \cup
    {KeyProviders \ {ps[i]} : i \in {j \in DOMAIN ps : ps[j] \in KeyProviders}}

\* city names: the empty string, a name with a space, the same name with '_'
CityEmpty == <<>>
CitySpace == <<"a", " ", "b">>
CityUnder == <<"a", "_", "b">>
Cities == {CityEmpty, CitySpace, CityUnder}
CityChoices == {None} \cup {Some(c) : c \in {CityEmpty, CitySpace}}

\* <<lat, lon>> in 1/10000 degree: nothing, a latitude alone, a pair in
\* range, a pair out of range
CoordinateChoices == {<<None, None>>, <<Some(515074), None>>,
                      <<Some(515074), Some(-1278)>>, <<Some(900001), Some(-1278)>>}

\* ------------------------------------------------------------------------
\* errors.rs: RustormyError, and the fallback classification of App::run
\* ------------------------------------------------------------------------
Ok(v) == [kind |-> "Ok", value |-> v]
Err(k) == [kind |-> k]
IsOk(r) == r.kind = "Ok"

ErrorKinds == {"NoLocationProvided", "InvalidCoordinates", "MissingApiKey",
               "InvalidConfiguration", "HttpRequestFailed", "CityNotFound",
               "ApiReturnedError", "ReadError", "JsonSerializeError"}

\* a panic (unwrap on None) is not an error value: it unwinds through App::run
Panic == [kind |-> "Panic"]
IsErr(r) == r.kind \in ErrorKinds

\* the match arm of App::run that selects the errors eligible for fallback
IsFallbackError_notfound(kind) ==
    kind \in {"ApiReturnedError", "HttpRequestFailed", "CityNotFound"}
IsFallbackError(kind) == kind \in {"ApiReturnedError", "HttpRequestFailed"}

\* ------------------------------------------------------------------------
\* config/file.rs: Config
\* ------------------------------------------------------------------------
Contains(seq, x) == \E i \in 1..Len(seq) : seq[i] = x

coordinates(cfg) ==
    IF IsSome(cfg.lat) /\ IsSome(cfg.lon)
    THEN Some(<<Unwrap(cfg.lat), Unwrap(cfg.lon)>>)
    ELSE None

\* format!("{}, {}", lat, lon), as a sequence comparable with a city name
CoordName(lat, lon) == <<ToString(lat), ",", " ", ToString(lon)>>

location_name(cfg) ==
    IF IsSome(cfg.city) THEN Unwrap(cfg.city)
    ELSE CoordName(Unwrap(cfg.lat), Unwrap(cfg.lon))

\* variant: the limits themselves excluded
InRange_open(lat, lon) ==
    /\ -900000 < lat /\ lat < 900000
    /\ -1800000 < lon /\ lon < 1800000

\* (-90.0..=90.0).contains(&lat) && (-180.0..=180.0).contains(&lon)
InRange(lat, lon) ==
    /\ -900000 <= lat /\ lat <= 900000
    /\ -1800000 <= lon /\ lon <= 1800000

MissingKey(cfg, p) == Contains(cfg.providers, p) /\ p \notin cfg.api_keys

validate_firstonly(cfg) ==
    IF IsNone(cfg.city) /\ (IsNone(cfg.lat) \/ IsNone(cfg.lon))
    THEN Err("NoLocationProvided")
    ELSE IF IsNone(cfg.city) /\ cfg.show_city_name
    THEN Err("InvalidConfiguration")
    ELSE IF cfg.providers = <<>>
    THEN Err("InvalidConfiguration")
    ELSE IF Head(cfg.providers) \in KeyProviders /\ Head(cfg.providers) \notin cfg.api_keys
    THEN [kind |-> "MissingApiKey", provider |-> Head(cfg.providers)]
    ELSE IF IsSome(coordinates(cfg))
            /\ ~InRange(Unwrap(coordinates(cfg))[1], Unwrap(coordinates(cfg))[2])
    THEN [kind |-> "InvalidCoordinates",
          lat |-> Unwrap(coordinates(cfg))[1], lon |-> Unwrap(coordinates(cfg))[2]]
    ELSE Ok(<<>>)

validate(cfg) ==
    IF IsNone(cfg.city) /\ (IsNone(cfg.lat) \/ IsNone(cfg.lon))
    THEN Err("NoLocationProvided")
    ELSE IF IsNone(cfg.city) /\ cfg.show_city_name
    THEN Err("InvalidConfiguration")
    ELSE IF cfg.providers = <<>>
    THEN Err("InvalidConfiguration")
    ELSE IF MissingKey(cfg, "OpenWeatherMap")
    THEN [kind |-> "MissingApiKey", provider |-> "OpenWeatherMap"]
    ELSE IF MissingKey(cfg, "WorldWeatherOnline")
    THEN [kind |-> "MissingApiKey", provider |-> "WorldWeatherOnline"]
    ELSE IF MissingKey(cfg, "WeatherApi")
    THEN [kind |-> "MissingApiKey", provider |-> "WeatherApi"]
    ELSE IF MissingKey(cfg, "WeatherBit")
    THEN [kind |-> "MissingApiKey", provider |-> "WeatherBit"]
    ELSE IF MissingKey(cfg, "TomorrowIo")
    THEN [kind |-> "MissingApiKey", provider |-> "TomorrowIo"]
    ELSE IF IsSome(coordinates(cfg))
            /\ ~InRange(Unwrap(coordinates(cfg))[1], Unwrap(coordinates(cfg))[2])
    THEN [kind |-> "InvalidCoordinates",
          lat |-> Unwrap(coordinates(cfg))[1], lon |-> Unwrap(coordinates(cfg))[2]]
    ELSE Ok(<<>>)

\* Config::provider: pop the first provider of the list.
\* The result is <<Option<Provider>, remaining list>>.
config_provider_keep(providers) ==
    IF providers = <<>> THEN <<None, providers>>
    ELSE <<Some(Head(providers)), providers>>
config_provider(providers) ==
    IF providers = <<>> THEN <<None, providers>>
    ELSE <<Some(Head(providers)), Tail(providers)>>

\* ------------------------------------------------------------------------
\* cache.rs: one file per (city, language) under the cache directory
\* ------------------------------------------------------------------------
\* city.replace(' ', "_")
replace(city) == [i \in 1..Len(city) |-> IF city[i] = " " THEN "_" ELSE city[i]]

\* variant: one file per city, whatever the language
get_geocoding_cache_path_nolang(city, language) ==
    [city |-> replace(city), language |-> code("en")]

\* variant: the city enters the file name as it is written
get_geocoding_cache_path_verbatim(city, language) ==
    [city |-> city, language |-> code(language)]

\* "geocoding_{city}_{language}.json"
get_geocoding_cache_path(city, language) ==
    [city |-> replace(city), language |-> code(language)]

CachePaths == {get_geocoding_cache_path(c, l) : c \in Cities, l \in Language}

\* content of a cache file
NoFile == [kind |-> "absent"]
Corrupt == [kind |-> "corrupt"]
JsonFile(location) == [kind |-> "json", location |-> location]

\* variant: the file of another session is never found
get_cached_location_miss(cache, city, language) == Ok(None)

get_cached_location(cache, city, language) ==
    LET cache_path == get_geocoding_cache_path(city, language)
    IN  IF cache[cache_path] # NoFile
        THEN IF cache[cache_path].kind = "json"
             THEN Ok(Some(cache[cache_path].location))
             ELSE Err("JsonSerializeError")
        ELSE Ok(None)

cache_location(cache, city, language, location) ==
    [cache EXCEPT ![get_geocoding_cache_path(city, language)] = JsonFile(location)]

\* std::fs::remove_dir_all(cache_dir): fails when the directory is missing.
\* The result is the Result, the files afterwards, and whether the
\* directory exists afterwards.
remove_dir_all(cache, exists) ==
    IF exists
    THEN [res |-> Ok(<<>>), cache |-> [q \in DOMAIN cache |-> NoFile], exists |-> FALSE]
    ELSE [res |-> Err("ReadError"), cache |-> cache, exists |-> exists]

clear_cache_nocheck(cache, exists) == remove_dir_all(cache, exists)
clear_cache(cache, exists) ==
    IF exists
    THEN remove_dir_all(cache, exists)
    ELSE [res |-> Ok(<<>>), cache |-> cache, exists |-> exists]

\* ------------------------------------------------------------------------
\* The network, as seen by one call of get_weather: what the geocoding
\* endpoint and the weather endpoint of the called provider answer.
\* ------------------------------------------------------------------------
\* the Location a geocoding endpoint answers for a city: neither the
\* configured coordinates nor the ones an earlier session stored
GeoCoords == {<<488566, 23522>>}
GeoLocations(city) ==
    {[name |-> city, latitude |-> c[1], longitude |-> c[2]] : c \in GeoCoords}

\* providers that implement LookUpCity
LookUpCityProviders == {"OpenMeteo", "OpenWeatherMap", "WeatherBit"}

\* What a request can meet, as the adapters distinguish it:
\*   "SendFailed"      send() fails (DNS, connect, timeout)
\*   "Undecodable"     the body does not decode into the response type
\*   "ApiError"        the body decodes into the error variant
\*   "Empty"           a decoded answer without results (no city, count 0)
\*   "BadNumber"       a decoded answer whose numeric string does not parse
\*   "NoTimeseries"    a decoded Yr answer with an empty timeseries
\*   "NoNextHours"     a decoded Yr answer without next_1_hours
\*   "NoWindDirection" a decoded Yr answer without wind_from_direction
\*   "Ok"              a complete answer
\* answers to the geocoding request of provider p: every one, and the ones
\* explored in long sessions (one per error the adapter can return)
GeoOutcomesAll(p) ==
    CASE p \in {"OpenMeteo", "OpenWeatherMap"} ->
             {"Ok", "SendFailed", "Undecodable", "ApiError", "Empty"}
      [] p = "WeatherBit" -> {"Ok", "SendFailed", "Undecodable", "ApiError"}
      [] OTHER -> {"Ok"}
GeoOutcomes(p) == GeoOutcomesAll(p) \ {"Undecodable"}

\* answers to the weather request of provider p
FetchOutcomesAll(p) ==
    {"Ok", "SendFailed", "Undecodable", "ApiError"} \cup
    CASE p = "WeatherBit" -> {"Empty"}
      [] p = "WorldWeatherOnline" -> {"BadNumber"}
      [] p = "Yr" -> {"NoTimeseries", "NoNextHours", "NoWindDirection"}
      [] OTHER -> {}
FetchOutcomes(p) ==
    FetchOutcomesAll(p) \ {"Undecodable", "BadNumber", "NoTimeseries",
                           "NoNextHours", "NoWindDirection"}

\* answers to the request of get_uv_index, which is sent only by
\* OpenWeatherMap and Yr and only with an OpenUV key
UvProviders == {"OpenWeatherMap", "Yr"}
UvOutcomes(p, cfg) ==
    IF p \in UvProviders /\ "OpenUv" \in cfg.api_keys
    THEN {"Ok", "SendFailed", "Undecodable", "ApiError"}
    ELSE {"Ok"}

EnvLocations(cfg) ==
    GeoLocations(IF IsSome(cfg.city) THEN Unwrap(cfg.city) ELSE CityEmpty)

Env(p, cfg) ==
    [geo : GeoOutcomes(p), location : EnvLocations(cfg), fetch : FetchOutcomes(p),
     uv : UvOutcomes(p, cfg)]

EnvAll(p, cfg) ==
    [geo : GeoOutcomesAll(p), location : EnvLocations(cfg), fetch : FetchOutcomesAll(p),
     uv : UvOutcomes(p, cfg)]

\* ------------------------------------------------------------------------
\* weather/mod.rs: LookUpCity, and the lookup_city of each implementor.
\* A resolution step returns
\*   res    : Result<Location, RustormyError>
\*   cache  : the cache directory afterwards
\*   geo    : number of geocoding requests sent
\*   reads  : number of calls of get_cached_location
\*   writes : number of calls of cache_location
\* ------------------------------------------------------------------------
Step(res, cache, geo, reads, writes) ==
    [res |-> res, cache |-> cache, geo |-> geo, reads |-> reads, writes |-> writes]

\* what an adapter returns for an answer that is not complete:
\*   .send()? and .json()? convert a reqwest::Error into HttpRequestFailed,
\*   an error variant, a numeric string that does not parse and an empty
\*   timeseries are returned as ApiReturnedError, an answer without results
\*   as CityNotFound, and unwrap() on a missing field panics
ResponseError_serde(event) ==
    CASE event = "SendFailed" -> Err("HttpRequestFailed")
      [] event = "Undecodable" -> Err("JsonSerializeError")
      [] event \in {"ApiError", "BadNumber", "NoTimeseries"} -> Err("ApiReturnedError")
      [] event = "Empty" -> Err("CityNotFound")
      [] event \in {"NoNextHours", "NoWindDirection"} -> Panic
ResponseError(event) ==
    CASE event \in {"SendFailed", "Undecodable"} -> Err("HttpRequestFailed")
      [] event \in {"ApiError", "BadNumber", "NoTimeseries"} -> Err("ApiReturnedError")
      [] event = "Empty" -> Err("CityNotFound")
      [] event \in {"NoNextHours", "NoWindDirection"} -> Panic

\* the geocoding request itself: send, decode, classify
GeocodeRequest(cache, env, reads) ==
    IF env.geo = "Ok"
    THEN Step(Ok(env.location), cache, 1, reads, 0)
    ELSE Step(ResponseError(env.geo), cache, 1, reads, 0)

\* OpenMeteo::lookup_city consults the cache on its own as well
lookup_city_open_meteo(cfg, cache, env) ==
    IF IsNone(cfg.city) THEN Step(Err("NoLocationProvided"), cache, 0, 0, 0)
    ELSE
    LET city == Unwrap(cfg.city)
        cached == IF cfg.use_geocoding_cache
                  THEN get_cached_location(cache, city, cfg.language)
                  ELSE Ok(None)
        reads == IF cfg.use_geocoding_cache THEN 1 ELSE 0
    IN  IF ~IsOk(cached) THEN Step(cached, cache, 0, reads, 0)
        ELSE IF IsSome(cached.value) THEN Step(Ok(Unwrap(cached.value)), cache, 0, reads, 0)
        ELSE LET r == GeocodeRequest(cache, env, reads)
             IN  IF IsOk(r.res) /\ cfg.use_geocoding_cache
                 THEN Step(r.res,
                           cache_location(cache, city, cfg.language, r.res.value),
                           r.geo, reads, 1)
                 ELSE r

lookup_city(p, cfg, cache, env) ==
    IF p = "OpenMeteo" THEN lookup_city_open_meteo(cfg, cache, env)
    ELSE IF IsNone(cfg.city) THEN Step(Err("NoLocationProvided"), cache, 0, 0, 0)
    ELSE GeocodeRequest(cache, env, 0)

lookup_city_cached_nohit(p, cfg, cache, env) ==
    LET r == lookup_city(p, cfg, cache, env)
    IN  IF IsOk(r.res) /\ cfg.use_geocoding_cache
        THEN Step(r.res, cache_location(r.cache, Unwrap(cfg.city), cfg.language, r.res.value),
                  r.geo, r.reads, r.writes + 1)
        ELSE r

lookup_city_cached_onerror(p, cfg, cache, env) ==
    LET city == Unwrap(cfg.city)
        cached == IF cfg.use_geocoding_cache
                  THEN get_cached_location(cache, city, cfg.language)
                  ELSE Ok(None)
        reads == IF cfg.use_geocoding_cache THEN 1 ELSE 0
    IN  IF ~IsOk(cached) THEN Step(cached, cache, 0, reads, 0)
        ELSE IF IsSome(cached.value) THEN Step(Ok(Unwrap(cached.value)), cache, 0, reads, 0)
        ELSE LET r == lookup_city(p, cfg, cache, env)
             IN  IF cfg.use_geocoding_cache
                 THEN Step(r.res,
                           cache_location(r.cache, city, cfg.language,
                                          IF IsOk(r.res) THEN r.res.value ELSE env.location),
                           r.geo, reads + r.reads, r.writes + 1)
                 ELSE Step(r.res, r.cache, r.geo, reads + r.reads, r.writes)

lookup_city_cached(p, cfg, cache, env) ==
    IF IsNone(cfg.city) THEN Step(Err("NoLocationProvided"), cache, 0, 0, 0)
    ELSE
    LET city == Unwrap(cfg.city)
        cached == IF cfg.use_geocoding_cache
                  THEN get_cached_location(cache, city, cfg.language)
                  ELSE Ok(None)
        reads == IF cfg.use_geocoding_cache THEN 1 ELSE 0
    IN  IF ~IsOk(cached) THEN Step(cached, cache, 0, reads, 0)
        ELSE IF IsSome(cached.value) THEN Step(Ok(Unwrap(cached.value)), cache, 0, reads, 0)
        ELSE LET r == lookup_city(p, cfg, cache, env)
             IN  IF IsOk(r.res) /\ cfg.use_geocoding_cache
                 THEN Step(r.res,
                           cache_location(r.cache, city, cfg.language, r.res.value),
                           r.geo, reads + r.reads, r.writes + 1)
                 ELSE Step(r.res, r.cache, r.geo, reads + r.reads, r.writes)

get_location_cityfirst(p, cfg, cache, env) ==
    IF IsSome(cfg.city) /\ Unwrap(cfg.city) # <<>>
    THEN lookup_city_cached(p, cfg, cache, env)
    ELSE IF IsSome(coordinates(cfg))
    THEN Step(Ok([name |-> location_name(cfg),
                  latitude |-> Unwrap(coordinates(cfg))[1],
                  longitude |-> Unwrap(coordinates(cfg))[2]]), cache, 0, 0, 0)
    ELSE Step(Err("NoLocationProvided"), cache, 0, 0, 0)

get_location_emptycity(p, cfg, cache, env) ==
    IF IsSome(coordinates(cfg))
    THEN Step(Ok([name |-> location_name(cfg),
                  latitude |-> Unwrap(coordinates(cfg))[1],
                  longitude |-> Unwrap(coordinates(cfg))[2]]), cache, 0, 0, 0)
    ELSE IF IsSome(cfg.city)
    THEN lookup_city_cached(p, cfg, cache, env)
    ELSE Step(Err("NoLocationProvided"), cache, 0, 0, 0)

get_location(p, cfg, cache, env) ==
    IF IsSome(coordinates(cfg))
    THEN Step(Ok([name |-> location_name(cfg),
                  latitude |-> Unwrap(coordinates(cfg))[1],
                  longitude |-> Unwrap(coordinates(cfg))[2]]), cache, 0, 0, 0)
    ELSE IF IsSome(cfg.city) /\ Unwrap(cfg.city) # <<>>
    THEN lookup_city_cached(p, cfg, cache, env)
    ELSE Step(Err("NoLocationProvided"), cache, 0, 0, 0)

\* ------------------------------------------------------------------------
\* weather/*.rs: GetWeather::get_weather of each adapter.
\* A call returns the resolution step extended with
\*   fetch    : number of weather requests sent
\*   query    : Option of the location put in the weather request
\*   resolved : Option of the Location the adapter's resolver returned
\*   uv       : number of UV-index requests sent
\* ------------------------------------------------------------------------
Call(res, step, fetch, query, resolved) ==
    [res |-> res, cache |-> step.cache, geo |-> step.geo, reads |-> step.reads,
     writes |-> step.writes, fetch |-> fetch, query |-> query, resolved |-> resolved,
     uv |-> 0]

NoStep(cache) == Step(Ok(<<>>), cache, 0, 0, 0)

ByCoords(lat, lon) == [by |-> "coordinates", latitude |-> lat, longitude |-> lon]
ByName(q) == [by |-> "name", q |-> q]

\* ------------------------------------------------------------------------
\* Units of measure. A number of an answer or of a Weather is modelled by
\* the unit it is expressed in: "C", "F", "m/s", "km/h", "mph", or "?" for
\* a number that a conversion applied to the wrong unit has produced.
\* ------------------------------------------------------------------------
\* the units the formatter prints after temperature and wind speed
TemperatureUnit(units) == IF units = "Metric" THEN "C" ELSE "F"
WindUnit(units) == IF units = "Metric" THEN "m/s" ELSE "mph"

\* tools.rs
c_to_f_unit(c) == IF c = "C" THEN "F" ELSE "?"
f_to_c_unit(f) == IF f = "F" THEN "C" ELSE "?"

\* the Magnus formula, its constants for degrees Celsius
dew_point_unit(t, units) ==
    LET celsius == IF units = "Imperial" THEN f_to_c_unit(t) ELSE t
        result == IF celsius = "C" THEN "C" ELSE "?"
    IN  IF units = "Imperial" THEN c_to_f_unit(result) ELSE result

\* AT = T + 0.33e - 0.70v - 4.00, T in degrees Celsius and v in m/s
apparent_temperature(t, w) == IF t = "C" /\ w = "m/s" THEN "C" ELSE "?"

\* value / 3.6
kmph_to_ms(w) == IF w = "km/h" THEN "m/s" ELSE "?"

Measured(temperature, feels_like, dew, wind_speed) ==
    [temperature |-> temperature, feels_like |-> feels_like, dew_point |-> dew,
     wind_speed |-> wind_speed]

\* Open-Meteo, OpenWeatherMap, WeatherBit and Tomorrow.io are asked for the
\* configured units and answer in them
measured_open_meteo(units) ==
    Measured(TemperatureUnit(units), TemperatureUnit(units), None, WindUnit(units))

\* OpenWeatherMapResponse::dew_point: tools::dew_point(main.temp, humidity, units)
measured_open_weather_map(units) ==
    Measured(TemperatureUnit(units), TemperatureUnit(units),
             Some(dew_point_unit(TemperatureUnit(units), units)), WindUnit(units))

measured_weather_bit(units) ==
    Measured(TemperatureUnit(units), TemperatureUnit(units),
             Some(TemperatureUnit(units)), WindUnit(units))

measured_tomorrow_io(units) ==
    Measured(TemperatureUnit(units), TemperatureUnit(units),
             Some(TemperatureUnit(units)), WindUnit(units))

\* WeatherAPI answers in both systems: temp_c, temp_f, feelslike_c,
\* feelslike_f, dewpoint_c, dewpoint_f, wind_kph, wind_mph
measured_weather_api(units) ==
    IF units = "Metric"
    THEN Measured("C", "C", Some("C"), kmph_to_ms("km/h"))
    ELSE Measured("F", "F", Some("F"), "mph")

\* World Weather Online answers in both systems: temp_C, temp_F,
\* FeelsLikeC, FeelsLikeF, windspeedKmph, windspeedMiles
measured_wwo(units) ==
    IF units = "Metric"
    THEN Measured("C", "C", None, kmph_to_ms("km/h"))
    ELSE Measured("F", "F", None, "mph")

\* the Yr request holds lat and lon alone; the answer is in degrees Celsius
\* and m/s
measured_yr(units) ==
    Measured("C", apparent_temperature("C", "m/s"), Some(dew_point_unit("C", units)), "m/s")

measured(p, units) ==
    CASE p = "OpenMeteo" -> measured_open_meteo(units)
      [] p = "OpenWeatherMap" -> measured_open_weather_map(units)
      [] p = "WeatherBit" -> measured_weather_bit(units)
      [] p = "TomorrowIo" -> measured_tomorrow_io(units)
      [] p = "WeatherApi" -> measured_weather_api(units)
      [] p = "WorldWeatherOnline" -> measured_wwo(units)
      [] p = "Yr" -> measured_yr(units)

\* Weather.uv_index is None, or Some of where the value comes from
Weather(p, name, uv_index, units) ==
    [provider |-> p, location_name |-> name, uv_index |-> uv_index,
     measured |-> measured(p, units)]

\* openuv.rs: get_uv_index, with the number of requests it sent
get_uv_index(cfg, env) ==
    IF "OpenUv" \notin cfg.api_keys
    THEN [res |-> Ok(None), uv |-> 0]
    ELSE [res |-> IF env.uv = "Ok" THEN Ok(Some("openuv")) ELSE ResponseError(env.uv),
          uv |-> 1]

\* the conversion of a complete answer into a Weather: OpenWeatherMap and Yr
\* ask get_uv_index, OpenMeteo has no UV index, the others take it from the
\* answer itself
into_weather(p, cfg, env, name) ==
    IF p \in UvProviders
    THEN LET u == get_uv_index(cfg, env)
         IN  [res |-> IF IsOk(u.res) THEN Ok(Weather(p, name, u.res.value, cfg.units)) ELSE u.res,
              uv |-> u.uv]
    ELSE [res |-> Ok(Weather(p, name, IF p = "OpenMeteo" THEN None ELSE Some("response"),
                          cfg.units)),
          uv |-> 0]

\* send the weather request and classify the answer
FetchWeather(p, cfg, step, env, query, name, resolved) ==
    IF env.fetch = "Ok"
    THEN LET w == into_weather(p, cfg, env, name)
         IN  [Call(w.res, step, 1, Some(query), resolved) EXCEPT !.uv = w.uv]
    ELSE Call(ResponseError(env.fetch), step, 1, Some(query), resolved)

\* OpenMeteo, OpenWeatherMap, WeatherBit: self.get_location(client, config)?
get_weather_resolved(p, cfg, cache, env) ==
    LET step == get_location(p, cfg, cache, env)
    IN  IF ~IsOk(step.res) THEN Call(step.res, step, 0, None, None)
        ELSE FetchWeather(p, cfg, step, env,
                          ByCoords(step.res.value.latitude, step.res.value.longitude),
                          step.res.value.name, Some(step.res.value))

\* TomorrowIo: WeatherRequestParams::new uses config.location_name()
get_weather_tomorrow_io(cfg, cache, env) ==
    FetchWeather("TomorrowIo", cfg, NoStep(cache), env,
                 ByName(location_name(cfg)), location_name(cfg), None)

\* WeatherApi: WeatherApiRequest::new
get_weather_weather_api(cfg, cache, env) ==
    IF "WeatherApi" \notin cfg.api_keys
    THEN Call(Err("MissingApiKey"), NoStep(cache), 0, None, None)
    ELSE FetchWeather("WeatherApi", cfg, NoStep(cache), env,
                      ByName(location_name(cfg)), location_name(cfg), None)

\* WorldWeatherOnline: WwoRequestParams::new
get_weather_wwo(cfg, cache, env) ==
    IF IsNone(coordinates(cfg)) /\ IsNone(cfg.city)
    THEN Call(Err("NoLocationProvided"), NoStep(cache), 0, None, None)
    ELSE IF "WorldWeatherOnline" \notin cfg.api_keys
    THEN Call(Err("MissingApiKey"), NoStep(cache), 0, None, None)
    ELSE LET q == IF IsSome(coordinates(cfg))
                  THEN <<ToString(Unwrap(coordinates(cfg))[1]), ",",
                         ToString(Unwrap(coordinates(cfg))[2])>>
                  ELSE Unwrap(cfg.city)
         IN  FetchWeather("WorldWeatherOnline", cfg, NoStep(cache), env, ByName(q), q, None)

\* variant: a city without coordinates is answered like a failed request
yr_get_location_transient(cfg, cache) ==
    IF IsSome(coordinates(cfg))
    THEN Step(Ok([name |-> location_name(cfg),
                  latitude |-> Unwrap(coordinates(cfg))[1],
                  longitude |-> Unwrap(coordinates(cfg))[2]]), cache, 0, 0, 0)
    ELSE IF IsSome(cfg.city) /\ Unwrap(cfg.city) # <<>>
    THEN Step(Err("ApiReturnedError"), cache, 0, 0, 0)
    ELSE Step(Err("NoLocationProvided"), cache, 0, 0, 0)

\* yr.rs: get_location, the resolver of the Yr adapter
yr_get_location(cfg, cache) ==
    IF IsSome(coordinates(cfg))
    THEN Step(Ok([name |-> location_name(cfg),
                  latitude |-> Unwrap(coordinates(cfg))[1],
                  longitude |-> Unwrap(coordinates(cfg))[2]]), cache, 0, 0, 0)
    ELSE IF IsSome(cfg.city) /\ Unwrap(cfg.city) # <<>>
    THEN Step(Err("InvalidConfiguration"), cache, 0, 0, 0)
    ELSE Step(Err("NoLocationProvided"), cache, 0, 0, 0)

get_weather_yr(cfg, cache, env) ==
    LET step == yr_get_location(cfg, cache)
    IN  IF ~IsOk(step.res) THEN Call(step.res, step, 0, None, None)
        ELSE FetchWeather("Yr", cfg, step, env,
                          ByCoords(step.res.value.latitude, step.res.value.longitude),
                          step.res.value.name, Some(step.res.value))

\* weather/provider.rs: enum_dispatch of GetWeather over GetWeatherProvider
get_weather(p, cfg, cache, env) ==
    CASE p \in LookUpCityProviders -> get_weather_resolved(p, cfg, cache, env)
      [] p = "TomorrowIo" -> get_weather_tomorrow_io(cfg, cache, env)
      [] p = "WeatherApi" -> get_weather_weather_api(cfg, cache, env)
      [] p = "WorldWeatherOnline" -> get_weather_wwo(cfg, cache, env)
      [] p = "Yr" -> get_weather_yr(cfg, cache, env)

\* ------------------------------------------------------------------------
\* State
\* ------------------------------------------------------------------------
VARIABLES
    config,      \* App.config; config.providers is the remaining provider list
    provider,    \* App.provider: Option of the tag of the active adapter
    cache,       \* the files of the cache directory: cache path -> file content
    cache_dir,   \* the cache directory exists
    pc,          \* "new"  : before Config::new / App::new
                 \* "run"  : App::run, at the top of the loop
                 \* "sleep": App::run, in std::thread::sleep
                 \* "exit_ok" : run returned (not live mode)
                 \* "exit_err": App::new failed, or display_error exited with 1
                 \* "panic"   : the process was aborted by a panic
    tick,        \* number of the current refresh tick
    error,       \* Option of the error reported when the process ended
    configured,  \* history: the provider list as configured
    log,         \* history: one entry per call of get_weather: the active
                 \* provider, the tick, the number of list entries consumed
                 \* so far (index), the kind of the result
    last         \* history: the latest call of get_weather

vars == <<config, provider, cache, cache_dir, pc, tick, error, configured, log, last>>

\* no attempt is lost below this length of the log (see LogNeverFull)
MaxAttempts == MaxProviders + MaxTicks + 1

Configs(ps) ==
    {[providers |-> ps, api_keys |-> ks, city |-> c, lat |-> ll[1], lon |-> ll[2],
      show_city_name |-> s, live_mode |-> l, use_geocoding_cache |-> u,
      language |-> "en", units |-> "Metric"] :
        ks \in ApiKeyChoices(ps), c \in CityChoices,
        ll \in CoordinateChoices, s \in BOOLEAN, l \in BOOLEAN, u \in BOOLEAN}

EmptyCache == [q \in CachePaths |-> NoFile]

\* a Location stored by an earlier session
StoredLocation(city) == [name |-> city, latitude |-> 407128, longitude |-> -740060]

\* the cache directory found at start: empty, or holding for the configured
\* city one file left by an earlier session: readable or not, for the
\* language of this session or for another one
InitCaches(cfg) ==
    {EmptyCache} \cup
    IF IsSome(cfg.city) /\ Unwrap(cfg.city) # <<>>
    THEN LET city == Unwrap(cfg.city)
         IN  {[EmptyCache EXCEPT ![get_geocoding_cache_path(city, "en")] = Corrupt],
              [EmptyCache EXCEPT ![get_geocoding_cache_path(city, "en")] =
                                     JsonFile(StoredLocation(city))],
              [EmptyCache EXCEPT ![get_geocoding_cache_path(city, "es")] =
                                     JsonFile(StoredLocation(city))]}
    ELSE {}

\* no request of this sort was sent
NotSent == "NotSent"

NotCalled ==
    [provider |-> "", res |-> Err("NotCalled"), geo |-> 0, reads |-> 0, writes |-> 0,
     fetch |-> 0, query |-> None, resolved |-> None, uv |-> 0,
     geo_answer |-> NotSent, fetch_answer |-> NotSent, uv_answer |-> NotSent]

\* the record of a call: what it returned and did, and what each request
\* it sent was answered
LastOf(p, call, env) ==
    [provider |-> p, res |-> call.res, geo |-> call.geo, reads |-> call.reads,
     writes |-> call.writes, fetch |-> call.fetch, query |-> call.query,
     resolved |-> call.resolved, uv |-> call.uv,
     geo_answer |-> IF call.geo > 0 THEN env.geo ELSE NotSent,
     fetch_answer |-> IF call.fetch > 0 THEN env.fetch ELSE NotSent,
     uv_answer |-> IF call.uv > 0 THEN env.uv ELSE NotSent]

Init ==
    /\ \E ps \in ProviderLists : config \in Configs(ps)
    /\ cache \in InitCaches(config)
    /\ cache_dir = (cache # EmptyCache)
    /\ provider = None
    /\ pc = "new"
    /\ tick = 1
    /\ error = None
    /\ configured = config.providers
    /\ log = <<>>
    /\ last = NotCalled

\* ------------------------------------------------------------------------
\* app.rs
\* ------------------------------------------------------------------------
\* Provider::default()
DefaultProvider == "OpenMeteo"

\* App::new: Config::new (merge, validate) and the first config.provider()
AppNew ==
    /\ pc = "new"
    /\ LET v == validate(config)
           pop == config_provider(config.providers)
       IN  IF ~IsOk(v)
           THEN /\ pc' = "exit_err"
                /\ error' = Some(v)
                /\ UNCHANGED <<config, provider>>
           ELSE /\ pc' = "run"
                /\ provider' = Some(IF IsSome(pop[1]) THEN Unwrap(pop[1]) ELSE DefaultProvider)
                /\ config' = [config EXCEPT !.providers = pop[2]]
                /\ UNCHANGED error
    /\ UNCHANGED <<cache, cache_dir, tick, configured, log, last>>

\* the call self.provider.get_weather(&self.client, &self.config) of one
\* iteration of the loop of App::run, with its effect on the cache
Attempt(env, call) ==
    /\ Len(log) < MaxAttempts
    /\ cache' = call.cache
    /\ cache_dir' = (cache_dir \/ call.writes > 0)
    /\ last' = LastOf(Unwrap(provider), call, env)
    /\ log' = Append(log, [provider |-> Unwrap(provider), tick |-> tick,
                           index |-> Len(configured) - Len(config.providers),
                           kind |-> call.res.kind])

Display_next(call) ==
    LET pop == config_provider(config.providers)
    IN  /\ IsOk(call.res)
        /\ pc' = IF config.live_mode THEN "sleep" ELSE "exit_ok"
        /\ config' = [config EXCEPT !.providers = pop[2]]
        /\ provider' = IF IsSome(pop[1]) THEN pop[1] ELSE provider
        /\ UNCHANGED error

\* variant: no break after the display
Display_loop(call) ==
    /\ IsOk(call.res)
    /\ pc' = IF config.live_mode THEN "sleep" ELSE "run"
    /\ UNCHANGED <<config, provider, error>>

\* App::run, arm Ok(weather): display, then break or sleep
Display(call) ==
    /\ IsOk(call.res)
    /\ pc' = IF config.live_mode THEN "sleep" ELSE "exit_ok"
    /\ UNCHANGED <<config, provider, error>>

Fallback_stale(call) ==
    LET pop == config_provider(config.providers)
    IN  /\ ~IsOk(call.res)
        /\ IsFallbackError(call.res.kind)
        /\ config' = [config EXCEPT !.providers = pop[2]]
        /\ IF IsSome(pop[1])
           THEN /\ pc' = "run"
                /\ UNCHANGED <<error, provider>>
           ELSE /\ error' = Some(call.res)
                /\ pc' = "exit_err"
                /\ UNCHANGED provider

\* variant: in live mode the process sleeps before the next provider is tried
Fallback_sleep(call) ==
    LET pop == config_provider(config.providers)
    IN  /\ ~IsOk(call.res)
        /\ IsFallbackError(call.res.kind)
        /\ config' = [config EXCEPT !.providers = pop[2]]
        /\ IF IsSome(pop[1])
           THEN /\ provider' = pop[1]
                /\ pc' = IF config.live_mode THEN "sleep" ELSE "run"
                /\ UNCHANGED error
           ELSE /\ error' = Some(call.res)
                /\ pc' = "exit_err"
                /\ UNCHANGED provider

\* App::run, arm ApiReturnedError | HttpRequestFailed: next provider, or
\* display_error when config.provider() is None
Fallback(call) ==
    LET pop == config_provider(config.providers)
    IN  /\ ~IsOk(call.res)
        /\ IsFallbackError(call.res.kind)
        /\ config' = [config EXCEPT !.providers = pop[2]]
        /\ IF IsSome(pop[1])
           THEN /\ provider' = pop[1]
                /\ pc' = "run"
                /\ UNCHANGED error
           ELSE /\ error' = Some(call.res)
                /\ pc' = "exit_err"
                /\ UNCHANGED provider

\* variant: in live mode an error that is not transient is shown and the
\* loop goes on with the next tick
Fatal_sleep(call) ==
    /\ IsErr(call.res)
    /\ ~IsFallbackError(call.res.kind)
    /\ error' = Some(call.res)
    /\ pc' = IF config.live_mode THEN "sleep" ELSE "exit_err"
    /\ UNCHANGED <<config, provider>>

\* App::run, arm _: display_error
Fatal(call) ==
    /\ IsErr(call.res)
    /\ ~IsFallbackError(call.res.kind)
    /\ error' = Some(call.res)
    /\ pc' = "exit_err"
    /\ UNCHANGED <<config, provider>>

\* a panic inside get_weather: no arm of the match runs, the process aborts
Abort(call) ==
    /\ call.res = Panic
    /\ pc' = "panic"
    /\ UNCHANGED <<config, provider, error>>

\* one iteration of the loop of App::run, up to break, continue, exit or
\* sleep, with the network giving one of the answers
Iteration(answers) ==
    /\ pc = "run"
    /\ \E env \in answers :
         LET call == get_weather(Unwrap(provider), config, cache, env)
         IN  /\ Attempt(env, call)
             /\ (Display(call) \/ Fallback(call) \/ Fatal(call) \/ Abort(call))
    /\ UNCHANGED <<tick, configured>>

RunIteration == Iteration(Env(Unwrap(provider), config))

Sleep_reset ==
    /\ pc = "sleep"
    /\ tick < MaxTicks
    /\ pc' = "run"
    /\ tick' = tick + 1
    /\ config' = [config EXCEPT !.providers = configured]
    /\ UNCHANGED <<provider, cache, cache_dir, error, configured, log, last>>

\* App::run: std::thread::sleep(sleep_duration) returns, next iteration
Sleep ==
    /\ pc = "sleep"
    /\ tick < MaxTicks
    /\ pc' = "run"
    /\ tick' = tick + 1
    /\ UNCHANGED <<config, provider, cache, cache_dir, error, configured, log, last>>

Next == AppNew \/ RunIteration \/ Sleep

Spec == Init /\ [][Next]_vars

\* ------------------------------------------------------------------------
\* Single runs (not live, no cache) over every adapter, with every answer a
\* request can meet and with or without an OpenUV key
\* ------------------------------------------------------------------------
AllProviderLists == SeqsUpTo(Provider, MaxProviders)

ConfigsAll(ps) ==
    {[providers |-> ps, api_keys |-> ks, city |-> c, lat |-> ll[1], lon |-> ll[2],
      show_city_name |-> FALSE, live_mode |-> FALSE, use_geocoding_cache |-> FALSE,
      language |-> "en", units |-> u] :
        ks \in {KeyProviders, KeyProviders \cup {"OpenUv"}},
        c \in {None, Some(CitySpace)}, u \in Units,
        ll \in {<<None, None>>, <<Some(515074), Some(-1278)>>}}

InitAll ==
    /\ \E ps \in AllProviderLists : config \in ConfigsAll(ps)
    /\ cache = EmptyCache
    /\ cache_dir = FALSE
    /\ provider = None
    /\ pc = "new"
    /\ tick = 1
    /\ error = None
    /\ configured = config.providers
    /\ log = <<>>
    /\ last = NotCalled

RunIterationAll == Iteration(EnvAll(Unwrap(provider), config))

NextAll == AppNew \/ RunIterationAll

SpecAll == InitAll /\ [][NextAll]_vars

\* ------------------------------------------------------------------------
\* Single runs to their end: lists over one adapter of each kind (shared
\* resolver, request by name, Yr), every answer, and fairness: every call
\* of get_weather returns and the process is scheduled, so a step that is
\* possible is taken
\* ------------------------------------------------------------------------
OnceProviderLists == SeqsUpTo({"OpenMeteo", "WeatherApi", "Yr"}, MaxProviders)

ConfigsOnce(ps) ==
    {[providers |-> ps, api_keys |-> KeyProviders, city |-> c, lat |-> ll[1], lon |-> ll[2],
      show_city_name |-> FALSE, live_mode |-> FALSE, use_geocoding_cache |-> FALSE,
      language |-> "en", units |-> "Metric"] :
        c \in {None, Some(CitySpace)},
        ll \in {<<None, None>>, <<Some(515074), Some(-1278)>>}}

InitOnce ==
    /\ \E ps \in OnceProviderLists : config \in ConfigsOnce(ps)
    /\ cache = EmptyCache
    /\ cache_dir = FALSE
    /\ provider = None
    /\ pc = "new"
    /\ tick = 1
    /\ error = None
    /\ configured = config.providers
    /\ log = <<>>
    /\ last = NotCalled

SpecOnce == InitOnce /\ [][NextAll]_vars /\ WF_vars(NextAll)

\* ------------------------------------------------------------------------
\* Properties
\* ------------------------------------------------------------------------
\* the error kinds the claims call transient
Transient == {"HttpRequestFailed", "ApiReturnedError"}

Attempted == [i \in 1..Len(log) |-> log[i].provider]
AllTransient == \A i \in 1..Len(log) : log[i].kind \in Transient
IsSuffix(s, t) == Len(s) <= Len(t) /\ s = SubSeq(t, Len(t) - Len(s) + 1, Len(t))

\* the guard never stops an attempt of the program
LogNeverFull == pc = "run" => Len(log) < MaxAttempts

\* C1: when every attempt so far failed with a transient error, the attempts
\* made are the entries of the configured (validated) list, each once and in
\* configured order; the run ends exactly after the attempt of the last
\* entry, reporting the error of that attempt, so that there is never an
\* (n+1)-th attempt.
C1_FallbackExhaustion ==
    (IsSome(provider) /\ AllTransient) =>
        /\ Len(log) <= Len(configured)
        /\ Attempted = SubSeq(configured, 1, Len(log))
        /\ (Len(log) = Len(configured) <=> pc = "exit_err")
        /\ (pc = "exit_err" =>
                /\ error = Some(last.res)
                /\ last.provider = configured[Len(configured)]
                /\ last.res.kind = log[Len(log)].kind)

\* C1 witness: a list of two different providers, both attempts failed
\* transiently, the process has ended with the error of the second
C1_Witness ==
    /\ pc = "exit_err"
    /\ Len(log) = 2
    /\ AllTransient
    /\ Len(configured) = 2
    /\ configured[1] # configured[2]
    /\ log[1].kind # log[2].kind

C3_FatalErrorStops ==
    /\ [][(/\ pc = "run"
           /\ log' # log
           /\ last'.res.kind \notin Transient \cup {"Ok"})
          => (/\ pc' = "exit_err"
              /\ error' = Some(last'.res)
              /\ config' = config
              /\ provider' = provider)]_vars
    /\ [](\A i \in 1..Len(log) :
            log[i].kind \notin Transient \cup {"Ok"}
                => i = Len(log) /\ pc = "exit_err" /\ error = Some(last.res))

\* C3 witness: the process ended on CityNotFound while a provider was left
\* in the list
C3_Witness ==
    /\ pc = "exit_err"
    /\ log # <<>>
    /\ last.res.kind = "CityNotFound"
    /\ config.providers # <<>>

\* C4: an entry of the provider list that failed is never attempted again,
\* in the same tick or in a later one: the remaining list only ever loses
\* entries at its front, every attempt is made by the entry of the configured
\* list that is active, and after a failed attempt every later attempt is
\* made by an entry further down the configured list.
C4_DroppedStaysDropped ==
    /\ [][IsSuffix(config'.providers, config.providers)]_vars
    /\ [](\A i \in 1..Len(log) :
            /\ log[i].index \in 1..Len(configured)
            /\ log[i].provider = configured[log[i].index])
    /\ [](\A i, j \in 1..Len(log) :
            (i < j /\ log[i].kind # "Ok") => log[j].index > log[i].index)

\* C4 witness: live mode, a provider failed in the first tick and an attempt
\* was made in the second tick
C4_Witness ==
    /\ config.live_mode
    /\ \E i, j \in 1..Len(log) :
         /\ i < j
         /\ log[i].kind # "Ok"
         /\ log[i].tick = 1
         /\ log[j].tick = 2

\* C5: a successful fetch changes neither the remaining provider list nor
\* the active adapter, and the attempt that follows a successful one is the
\* first attempt of the next tick, made by the same entry.
C5_SuccessKeepsProvider ==
    /\ [][(pc = "run" /\ log' # log /\ last'.res.kind = "Ok")
          => (config' = config /\ provider' = provider)]_vars
    /\ [](\A i \in 1..Len(log) :
            (log[i].kind = "Ok" /\ i < Len(log))
                => /\ log[i + 1].provider = log[i].provider
                   /\ log[i + 1].index = log[i].index
                   /\ log[i + 1].tick = log[i].tick + 1)

\* C5 witness: live mode, the first tick succeeded with a provider left in
\* the list, and the second tick has made its first attempt
C5_Witness ==
    /\ config.live_mode
    /\ Len(log) >= 2
    /\ log[1].kind = "Ok"
    /\ log[2].tick = 2
    /\ Len(configured) = 2
    /\ configured[1] # configured[2]

\* a provider of the configured list needs a key and its key is empty
SomeKeyMissing ==
    \E p \in KeyProviders : Contains(configured, p) /\ p \notin config.api_keys

\* the two checks of Config::validate that precede the key checks fail
NoLocationConfigured == IsNone(config.city) /\ (IsNone(config.lat) \/ IsNone(config.lon))
ShowCityWithoutCity == IsNone(config.city) /\ config.show_city_name

\* C6 as stated: whenever a listed provider that needs a key has an empty
\* key, validation fails with MissingApiKey before any attempt.
C6_AsStated ==
    (pc # "new" /\ SomeKeyMissing) =>
        /\ pc = "exit_err"
        /\ IsSome(error)
        /\ Unwrap(error).kind = "MissingApiKey"
        /\ log = <<>>

\* C6 (amended): whenever a listed provider that needs a key has an empty
\* key, whatever its position, validation fails before the loop starts and
\* before any request: no adapter is created and no attempt is made. The
\* error is MissingApiKey, naming a listed provider without key, unless one
\* of the two earlier checks of validate fails: NoLocationProvided when no
\* location is configured, InvalidConfiguration when the city name is to be
\* shown and there is no city.
C6_MissingKeyFailsValidation ==
    (pc # "new" /\ SomeKeyMissing) =>
        /\ pc = "exit_err"
        /\ IsSome(error)
        /\ log = <<>>
        /\ last = NotCalled
        /\ provider = None
        /\ config.providers = configured
        /\ Unwrap(error).kind =
              IF NoLocationConfigured THEN "NoLocationProvided"
              ELSE IF ShowCityWithoutCity THEN "InvalidConfiguration"
              ELSE "MissingApiKey"
        /\ (Unwrap(error).kind = "MissingApiKey" =>
                /\ Contains(configured, Unwrap(error).provider)
                /\ Unwrap(error).provider \notin config.api_keys)

\* C6 witness: validation failed with MissingApiKey for the second provider
\* of a list whose first provider needs no key
C6_Witness ==
    /\ pc = "exit_err"
    /\ IsSome(error)
    /\ Unwrap(error).kind = "MissingApiKey"
    /\ Len(configured) = 2
    /\ configured[1] \notin KeyProviders
    /\ Unwrap(error).provider = configured[2]
    /\ log = <<>>

\* the configuration names a non-empty city
CityGiven == IsSome(config.city) /\ Unwrap(config.city) # <<>>
\* the cache path of the configured city and language
CityPath == get_geocoding_cache_path(Unwrap(config.city), config.language)
\* the next step is an attempt of a provider that resolves its location
\* through LookUpCity::get_location
ResolverAttempt ==
    /\ pc = "run"
    /\ log' # log
    /\ Unwrap(provider) \in LookUpCityProviders

\* C7: with the cache enabled and a Location stored for (city, language),
\* resolving the city returns the stored Location and sends no geocoding
\* request.
C7_CacheHit ==
    [][(/\ ResolverAttempt
        /\ IsNone(coordinates(config))
        /\ CityGiven
        /\ config.use_geocoding_cache
        /\ cache[CityPath].kind = "json")
       => (/\ last'.resolved = Some(cache[CityPath].location)
           /\ last'.geo = 0)]_vars

\* C7 witness: the second attempt of the session, by another provider than
\* the first, resolved the city from the cache without a request
C7_Witness ==
    /\ config.use_geocoding_cache
    /\ Len(log) = 2
    /\ log[1].provider # log[2].provider
    /\ last.provider \in LookUpCityProviders
    /\ last.reads > 0
    /\ last.geo = 0
    /\ IsSome(last.resolved)
    /\ cache[CityPath] = JsonFile(Unwrap(last.resolved))

\* C8: on a miss the resolver sends the geocoding request of the active
\* provider; the cache changes only when caching is enabled and that request
\* succeeded, and then it gains exactly the entry (city, language) -> result.
\* A failed geocoding leaves the cache as it was, and with caching disabled
\* the cache is neither read nor written.
C8_CacheWriteOnlyOnSuccess ==
    /\ [][(/\ ResolverAttempt
           /\ IsNone(coordinates(config))
           /\ CityGiven
           /\ (~config.use_geocoding_cache \/ cache[CityPath] = NoFile))
          => (/\ last'.geo = 1
              /\ cache' = IF config.use_geocoding_cache /\ IsSome(last'.resolved)
                          THEN [cache EXCEPT ![CityPath] = JsonFile(Unwrap(last'.resolved))]
                          ELSE cache)]_vars
    /\ [][(pc = "run" /\ log' # log /\ ~config.use_geocoding_cache)
          => (last'.reads = 0 /\ last'.writes = 0 /\ cache' = cache)]_vars
    /\ [][(cache' # cache)
          => (/\ config.use_geocoding_cache
              /\ last'.geo = 1
              /\ IsSome(last'.resolved)
              /\ last'.writes > 0)]_vars

\* C8 witness: a miss followed by a successful geocoding stored the result
C8_Witness ==
    /\ config.use_geocoding_cache
    /\ Len(log) = 1
    /\ last.geo = 1
    /\ last.writes > 0
    /\ IsSome(last.resolved)
    /\ cache[CityPath] = JsonFile(Unwrap(last.resolved))

\* C8 witness of the failing case: caching enabled, a miss, the geocoding
\* request failed
C8_WitnessFailed ==
    /\ config.use_geocoding_cache
    /\ Len(log) = 1
    /\ last.reads > 0
    /\ last.geo = 1
    /\ IsNone(last.resolved)
    /\ cache = EmptyCache

\* C9: with both latitude and longitude configured, resolution returns a
\* Location with exactly these coordinates, whether or not a city is
\* configured, without reading or writing the cache and without a geocoding
\* request.
C9_CoordinatesTakePrecedence ==
    [][(ResolverAttempt /\ IsSome(coordinates(config)))
       => (/\ IsSome(last'.resolved)
           /\ Unwrap(last'.resolved).latitude = Unwrap(config.lat)
           /\ Unwrap(last'.resolved).longitude = Unwrap(config.lon)
           /\ last'.query = Some(ByCoords(Unwrap(config.lat), Unwrap(config.lon)))
           /\ last'.geo = 0
           /\ last'.reads = 0
           /\ last'.writes = 0
           /\ cache' = cache)]_vars

\* C9 witness: coordinates and a city are configured, the cache is enabled
\* and holds an entry for the city, and the resolver returned the coordinates
C9_Witness ==
    /\ IsSome(coordinates(config))
    /\ CityGiven
    /\ config.use_geocoding_cache
    /\ cache[CityPath].kind = "json"
    /\ last.provider \in LookUpCityProviders
    /\ IsSome(last.resolved)
    /\ Unwrap(last.resolved).latitude # cache[CityPath].location.latitude

\* C10: without a coordinate pair and without a non-empty city, resolution
\* fails with NoLocationProvided: no geocoding request, no weather request,
\* no access to the cache. A configuration with an empty city reaches the
\* resolver; one without any city is rejected by Config::validate with the
\* same error.
C10_NoLocationProvided ==
    /\ [][(ResolverAttempt /\ IsNone(coordinates(config)) /\ ~CityGiven)
          => (/\ last'.res = Err("NoLocationProvided")
              /\ last'.geo = 0
              /\ last'.fetch = 0
              /\ last'.reads = 0
              /\ last'.writes = 0
              /\ cache' = cache
              /\ error' = Some(Err("NoLocationProvided")))]_vars
    /\ [][(pc = "new" /\ IsNone(coordinates(config)) /\ IsNone(config.city))
          => (/\ pc' = "exit_err"
              /\ error' = Some(Err("NoLocationProvided"))
              /\ log' = <<>>
              /\ cache' = cache)]_vars

\* C10 witness: the city is the empty string, only a latitude is configured,
\* the cache is enabled, and the attempt ended with NoLocationProvided
C10_Witness ==
    /\ pc = "exit_err"
    /\ config.city = Some(CityEmpty)
    /\ IsSome(config.lat)
    /\ config.use_geocoding_cache
    /\ last.provider \in LookUpCityProviders
    /\ last.res = Err("NoLocationProvided")

\* ------------------------------------------------------------------------
\* Properties of the adapters, checked over every adapter and every answer
\* ------------------------------------------------------------------------
\* the next step is a call of get_weather
AnAttempt == pc = "run" /\ log' # log

\* an answer is a data error: the body does not decode into the expected
\* type, or a numeric string of a decoded answer does not parse
DataAnswers == {"Undecodable", "BadNumber"}
DataError(l) ==
    \/ l.geo_answer \in DataAnswers
    \/ l.fetch_answer \in DataAnswers
    \/ l.uv_answer \in DataAnswers

\* C11: a call of get_weather one of whose requests met a data error returns
\* HttpRequestFailed or ApiReturnedError, and the loop goes on with the next
\* provider of the list; with an empty list the run ends with that error.
C11_DataErrorsFallBack ==
    [][(AnAttempt /\ DataError(last'))
       => (/\ last'.res.kind \in Transient
           /\ IF config.providers # <<>>
              THEN /\ provider' = Some(Head(config.providers))
                   /\ config'.providers = Tail(config.providers)
                   /\ pc' = "run"
              ELSE /\ pc' = "exit_err"
                   /\ error' = Some(last'.res))]_vars

\* C11 witness: the weather answer of the first provider had a numeric
\* field that does not parse, and the second provider is now active
C11_Witness ==
    /\ pc = "run"
    /\ Len(log) = 1
    /\ last.fetch_answer = "BadNumber"
    /\ Len(configured) = 2
    /\ provider = Some(configured[2])
    /\ configured[2] # configured[1]

\* C11 witness of the other data error: an undecodable geocoding answer
C11_WitnessUndecodable ==
    /\ pc = "run"
    /\ Len(log) = 1
    /\ last.geo_answer = "Undecodable"
    /\ Len(configured) = 2
    /\ provider = Some(configured[2])

\* C12 (as stated): when a provider reports that the city was not found,
\* at the geocoding request or at the weather request, and providers remain
\* in the list, the loop goes on with the next provider of the list.
C12_CityNotFoundFallsBack ==
    [][(/\ AnAttempt
        /\ "Empty" \in {last'.geo_answer, last'.fetch_answer}
        /\ config.providers # <<>>)
       => (/\ provider' = Some(Head(config.providers))
           /\ config'.providers = Tail(config.providers)
           /\ pc' = "run")]_vars

\* C13 (as stated): with the cache enabled, a cache file of the configured
\* city that exists but cannot be decoded does not stop the resolution: the
\* geocoding request of the active provider is sent.
C13_CacheReadFailureFallsThrough ==
    [][(/\ ResolverAttempt
        /\ IsNone(coordinates(config))
        /\ CityGiven
        /\ config.use_geocoding_cache
        /\ cache[CityPath] = Corrupt)
       => (/\ last'.geo = 1
           /\ last'.res.kind # "JsonSerializeError")]_vars

\* C14 (as stated): for the adapters that ask get_uv_index, a complete
\* weather answer always yields a Weather: without an OpenUV key no UV
\* request is sent and uv_index is absent, and with a key a UV request that
\* fails leaves uv_index absent instead of failing the call.
C14_UvIsSoftEnrichment ==
    [][(/\ AnAttempt
        /\ Unwrap(provider) \in UvProviders
        /\ last'.fetch_answer = "Ok")
       => (/\ IsOk(last'.res)
           /\ ("OpenUv" \notin config.api_keys
                 => last'.uv = 0 /\ last'.res.value.uv_index = None)
           /\ (last'.uv_answer \notin {"Ok", NotSent}
                 => last'.res.value.uv_index = None))]_vars

\* C15 (as stated): every call of get_weather ends with a Weather or with a
\* RustormyError, whatever decodable answer the provider sends: the process
\* is never aborted by a panic.
C15_NoPanic ==
    /\ pc # "panic"
    /\ (IsOk(last.res) \/ IsErr(last.res) \/ last = NotCalled)

\* ------------------------------------------------------------------------
\* cache.rs on its own: any sequence of cache_location, get_cached_location,
\* lookup_city_cached and clear_cache, starting without files.
\* Here last is the record of the latest operation, and log is the history
\* of what was stored since the last clear_cache:
\*   by_key : for each (city, language), Option of the Location stored last
\*            under exactly this key
\*   latest : for each (city with ' ' replaced by '_', language), Option of
\*            the Location stored last under a key with this image
\* ------------------------------------------------------------------------
CacheLanguages == {"en", "es"}
\* get_location hands only a non-empty city to the cache
CacheCities == Cities \ {CityEmpty}
CacheKeys == [city : CacheCities, language : CacheLanguages]
CacheLocations(city) == {StoredLocation(city)} \cup GeoLocations(city)

Image(key) == <<replace(key.city), key.language>>
Images == {Image(k) : k \in CacheKeys}

NoHistory == [by_key |-> [k \in CacheKeys |-> None], latest |-> [i \in Images |-> None]]
Store(h, key, loc) ==
    [by_key |-> [h.by_key EXCEPT ![key] = Some(loc)],
     latest |-> [h.latest EXCEPT ![Image(key)] = Some(loc)]]

\* existed: whether the cache directory existed before the operation
CacheOp(op, key, res, existed) == [op |-> op, key |-> key, res |-> res, existed |-> existed]

InitCache ==
    /\ cache = EmptyCache
    /\ cache_dir \in BOOLEAN
    /\ log = NoHistory
    /\ last = CacheOp("none", None, Ok(<<>>), cache_dir)
    /\ pc = "cache"
    /\ config = None
    /\ provider = None
    /\ tick = 1
    /\ error = None
    /\ configured = <<>>

CacheLocation ==
    /\ pc = "cache"
    /\ \E key \in CacheKeys : \E loc \in CacheLocations(key.city) :
         /\ cache' = cache_location(cache, key.city, key.language, loc)
         /\ cache_dir' = TRUE
         /\ log' = Store(log, key, loc)
         /\ last' = CacheOp("cache_location", Some(key), Ok(<<>>), cache_dir)
    /\ UNCHANGED <<config, provider, pc, tick, error, configured>>

GetCachedLocation ==
    /\ pc = "cache"
    /\ \E key \in CacheKeys :
         last' = CacheOp("get_cached_location", Some(key),
                         get_cached_location(cache, key.city, key.language), cache_dir)
    /\ UNCHANGED <<config, provider, cache, cache_dir, pc, tick, error, configured, log>>

\* a resolution of a non-empty city by a provider that implements LookUpCity
LookupCityCached ==
    /\ pc = "cache"
    /\ \E p \in LookUpCityProviders, key \in CacheKeys, u \in BOOLEAN :
       \E g \in GeoOutcomesAll(p), loc \in GeoLocations(key.city) :
         LET cfg == [city |-> Some(key.city), language |-> key.language,
                     use_geocoding_cache |-> u]
             step == lookup_city_cached(p, cfg, cache, [geo |-> g, location |-> loc])
         IN  /\ cache' = step.cache
             /\ cache_dir' = (cache_dir \/ step.writes > 0)
             /\ log' = IF step.writes > 0 THEN Store(log, key, step.res.value) ELSE log
             /\ last' = CacheOp("lookup_city_cached", Some(key), step.res, cache_dir)
    /\ UNCHANGED <<config, provider, pc, tick, error, configured>>

ClearCache ==
    /\ pc = "cache"
    /\ LET r == clear_cache(cache, cache_dir)
       IN  /\ cache' = r.cache
           /\ cache_dir' = r.exists
           /\ log' = IF IsOk(r.res) THEN NoHistory ELSE log
           /\ last' = CacheOp("clear_cache", None, r.res, cache_dir)
    /\ UNCHANGED <<config, provider, pc, tick, error, configured>>

NextCache == CacheLocation \/ GetCachedLocation \/ LookupCityCached \/ ClearCache

SpecCache == InitCache /\ [][NextCache]_vars

\* the latest operation was a lookup of key
LookedUp(key) == last.op = "get_cached_location" /\ last.key = Some(key)

Present(c) == {q \in DOMAIN c : c[q] # NoFile}

\* C17: cache entries never expire. A lookup changes neither the files nor
\* the directory; a resolution leaves every file that exists as it is; a
\* file disappears only in a clear_cache; after clear_cache, which succeeds
\* also when there is no cache directory, every lookup is a miss.
C17_EntriesNeverExpire ==
    /\ [][/\ (last'.op = "get_cached_location" =>
                 cache' = cache /\ cache_dir' = cache_dir)
          /\ (last'.op = "lookup_city_cached" =>
                 \A q \in Present(cache) : cache'[q] = cache[q])
          /\ (Present(cache) \ Present(cache') # {} => last'.op = "clear_cache")]_vars
    /\ [](last.op = "clear_cache" =>
             /\ last.res = Ok(<<>>)
             /\ ~cache_dir
             /\ Present(cache) = {}
             /\ \A key \in CacheKeys :
                   get_cached_location(cache, key.city, key.language) = Ok(None))

\* C17 witness: clear_cache was called when there was no cache directory
C17_Witness ==
    /\ last.op = "clear_cache"
    /\ ~last.existed
    /\ last.res = Ok(<<>>)

\* ------------------------------------------------------------------------
\* The condition-code mappings of the adapters. A Rust match is a sequence
\* of arms <<codes, icon>>; the first arm that holds the code decides, and
\* the arm `_` gives Unknown.
\* ------------------------------------------------------------------------

\* models.rs calls the first variant after Unknown Sunny, display/theme.rs
\* and five adapters call it Clear: one variant, written Clear here
WeatherConditionIcon ==
    {"Unknown", "Clear", "PartlyCloudy", "Cloudy", "LightShowers", "HeavyShowers",
     "LightSnow", "HeavySnow", "Thunderstorm", "Fog"}

Arm(codes, icon) == [codes |-> codes, icon |-> icon]

RECURSIVE Match(_, _)
Match(id, arms) ==
    IF arms = <<>> THEN "Unknown"
    ELSE IF id \in Head(arms).codes THEN Head(arms).icon
    ELSE Match(id, Tail(arms))

\* the codes some arm names
Table(arms) == UNION {arms[i].codes : i \in DOMAIN arms}

OpenMeteoArms ==
    << Arm({0}, "Clear"),
       Arm(1..2, "PartlyCloudy"),
       Arm({3}, "Cloudy"),
       Arm({45, 48}, "Fog"),
       Arm(51..57 \cup {80}, "LightShowers"),
       Arm(61..67 \cup {81, 82}, "HeavyShowers"),
       Arm(71..73, "LightSnow"),
       Arm({75, 77, 85, 86}, "HeavySnow"),
       Arm({95, 96, 99}, "Thunderstorm") >>

\* open_weather_map.rs and weather_bit.rs have the same arms
OpenWeatherMapArms ==
    << Arm(200..232, "Thunderstorm"),
       Arm(300..321 \cup {500, 520}, "LightShowers"),
       Arm(500..531, "HeavyShowers"),
       Arm({600, 612, 615, 620}, "LightSnow"),
       Arm(601..622, "HeavySnow"),
       Arm(701..781, "Fog"),
       Arm({800}, "Clear"),
       Arm({801, 802}, "PartlyCloudy"),
       Arm({803, 804}, "Cloudy") >>

WeatherBitArms == OpenWeatherMapArms

TomorrowIoArms ==
    << Arm({1000}, "Clear"),
       Arm({1100, 1101}, "PartlyCloudy"),
       Arm({1102, 1001}, "Cloudy"),
       Arm({2000, 2100}, "Fog"),
       Arm({4000, 4200, 6000, 6200}, "LightShowers"),
       Arm({4001, 4201, 6001, 6201}, "HeavyShowers"),
       Arm({5001, 5100, 7102}, "LightSnow"),
       Arm({5000, 5101, 7000, 7101}, "HeavySnow"),
       Arm({8000}, "Thunderstorm") >>

WeatherApiArms ==
    << Arm({1000}, "Clear"),
       Arm({1003}, "PartlyCloudy"),
       Arm({1006, 1009}, "Cloudy"),
       Arm({1030, 1135, 1147}, "Fog"),
       Arm({1063, 1150, 1153, 1180, 1183, 1240, 1249, 1252}, "LightShowers"),
       Arm({1186, 1189, 1192, 1195, 1243, 1246}, "HeavyShowers"),
       Arm({1066, 1069, 1072, 1210, 1213, 1216, 1219, 1222, 1225, 1237, 1255}, "LightSnow"),
       Arm({1114, 1117, 1228, 1231, 1258}, "HeavySnow"),
       Arm({1087, 1273, 1276, 1279, 1282}, "Thunderstorm") >>

WorldWeatherOnlineArms ==
    << Arm({113}, "Clear"),
       Arm({116}, "PartlyCloudy"),
       Arm({119, 122}, "Cloudy"),
       Arm({143, 248, 260}, "Fog"),
       Arm({263, 266, 281, 284}, "LightShowers"),
       Arm({176, 293, 296, 299, 302, 308, 305, 353, 356, 359, 311, 314, 317, 320,
            362, 365, 374, 377}, "HeavyShowers"),
       Arm({179, 323, 326, 329, 332, 335, 338, 368, 371, 227, 230}, "HeavySnow"),
       Arm({200, 386, 389, 392, 395}, "Thunderstorm") >>

YrArms ==
    << Arm({"clearsky", "clearsky_day", "clearsky_night"}, "Clear"),
       Arm({"partlycloudy", "partlycloudy_day", "partlycloudy_night"}, "PartlyCloudy"),
       Arm({"cloudy"}, "Cloudy"),
       Arm({"rain", "lightrain", "lightrainshowers_day"}, "LightShowers"),
       Arm({"heavyrain"}, "HeavyShowers"),
       Arm({"snow", "lightsnow"}, "LightSnow"),
       Arm({"heavysnow"}, "HeavySnow"),
       Arm({"fog"}, "Fog") >>

\* str::parse::<u16>: an optional '+', then one or more decimal digits, the
\* value at most u16::MAX; a text is a sequence of one-character strings
DecimalDigits == <<"0", "1", "2", "3", "4", "5", "6", "7", "8", "9">>
DigitValue(c) == (CHOOSE i \in DOMAIN DecimalDigits : DecimalDigits[i] = c) - 1
IsDigit(c) == \E i \in DOMAIN DecimalDigits : DecimalDigits[i] = c

RECURSIVE Decimal(_)
Decimal(digits) ==
    IF digits = <<>> THEN 0
    ELSE 10 * Decimal(SubSeq(digits, 1, Len(digits) - 1)) + DigitValue(digits[Len(digits)])

parse_u16(text) ==
    LET digits == IF text # <<>> /\ text[1] = "+" THEN Tail(text) ELSE text
    IN  IF digits = <<>> \/ \E i \in DOMAIN digits : ~IsDigit(digits[i])
        THEN Err("ParseIntError")
        ELSE IF Decimal(digits) > 65535 THEN Err("ParseIntError")
        ELSE Ok(Decimal(digits))

\* u16::to_string
RECURSIVE to_string(_)
to_string(n) ==
    IF n < 10 THEN <<DecimalDigits[n + 1]>>
    ELSE Append(to_string(n \div 10), DecimalDigits[(n % 10) + 1])

\* the icon functions: Ok(icon) or Err(kind)
icon_open_meteo(id) == Ok(Match(id, OpenMeteoArms))

\* weather is the list of conditions of the response: the first one decides
icon_open_weather_map(weather) ==
    IF weather = <<>> THEN Ok("Unknown") ELSE Ok(Match(Head(weather), OpenWeatherMapArms))

icon_weather_bit(id) == Ok(Match(id, WeatherBitArms))
icon_tomorrow_io(id) == Ok(Match(id, TomorrowIoArms))
icon_weather_api(id) == Ok(Match(id, WeatherApiArms))
symbol_code_to_icon(id) == Ok(Match(id, YrArms))

icon_world_weather_online(weather_code) ==
    LET parsed == parse_u16(weather_code)
    IN  IF IsOk(parsed) THEN Ok(Match(parsed.value, WorldWeatherOnlineArms))
        ELSE Err("ApiReturnedError")

\* the codes a response can carry, by the type of the field
OpenMeteoCodes == 0..255
ConditionIds == 199..805
OpenWeatherMapLists == {<<>>} \cup {<<id>> : id \in ConditionIds}
TomorrowIoCodes == Table(TomorrowIoArms) \cup {0, 1002, 3000, 9999}
WeatherApiCodes == 999..1283
WorldWeatherOnlineCodes ==
    {to_string(n) : n \in 100..400}
        \cup {to_string(65535), to_string(65536), <<>>, <<"n", "/", "a">>, <<"-", "1">>,
              <<"+", "1", "1", "3">>, <<"0", "1", "1", "3">>, <<"1", "1", "3", " ">>}
YrSymbolCodes ==
    Table(YrArms) \cup {"", "sleet", "cloudy_day", "heavyrainandthunder", "lightrainshowers_night"}

\* the record of one call of an icon function: listed says whether an arm
\* names the code
IconOp(p, id, listed, res) ==
    [op |-> "icon", provider |-> p, code |-> id, listed |-> listed, res |-> res]

InitIcon ==
    /\ last = [op |-> "none"]
    /\ pc = "icon"
    /\ config = None
    /\ provider = None
    /\ cache = EmptyCache
    /\ cache_dir = FALSE
    /\ tick = 1
    /\ error = None
    /\ configured = <<>>
    /\ log = <<>>

\* the mappings are pure: one call in a behaviour shows all of them
IconUnchanged ==
    /\ pc' = "done"
    /\ UNCHANGED <<config, provider, cache, cache_dir, tick, error, configured, log>>

IconOpenMeteo ==
    /\ pc = "icon"
    /\ \E id \in OpenMeteoCodes :
         last' = IconOp("OpenMeteo", id, id \in Table(OpenMeteoArms), icon_open_meteo(id))
    /\ IconUnchanged

IconOpenWeatherMap ==
    /\ pc = "icon"
    /\ \E weather \in OpenWeatherMapLists :
         last' = IconOp("OpenWeatherMap", weather,
                        weather # <<>> /\ Head(weather) \in Table(OpenWeatherMapArms),
                        icon_open_weather_map(weather))
    /\ IconUnchanged

IconWeatherBit ==
    /\ pc = "icon"
    /\ \E id \in ConditionIds :
         last' = IconOp("WeatherBit", id, id \in Table(WeatherBitArms), icon_weather_bit(id))
    /\ IconUnchanged

IconTomorrowIo ==
    /\ pc = "icon"
    /\ \E id \in TomorrowIoCodes :
         last' = IconOp("TomorrowIo", id, id \in Table(TomorrowIoArms), icon_tomorrow_io(id))
    /\ IconUnchanged

IconWeatherApi ==
    /\ pc = "icon"
    /\ \E id \in WeatherApiCodes :
         last' = IconOp("WeatherApi", id, id \in Table(WeatherApiArms), icon_weather_api(id))
    /\ IconUnchanged

IconWorldWeatherOnline ==
    /\ pc = "icon"
    /\ \E weather_code \in WorldWeatherOnlineCodes :
         last' = IconOp("WorldWeatherOnline", weather_code,
                        /\ IsOk(parse_u16(weather_code))
                        /\ parse_u16(weather_code).value \in Table(WorldWeatherOnlineArms),
                        icon_world_weather_online(weather_code))
    /\ IconUnchanged

IconYr ==
    /\ pc = "icon"
    /\ \E symbol_code \in YrSymbolCodes :
         last' = IconOp("Yr", symbol_code, symbol_code \in Table(YrArms),
                        symbol_code_to_icon(symbol_code))
    /\ IconUnchanged

NextIcon ==
    \/ IconOpenMeteo
    \/ IconOpenWeatherMap
    \/ IconWeatherBit
    \/ IconTomorrowIo
    \/ IconWeatherApi
    \/ IconWorldWeatherOnline
    \/ IconYr

SpecIcon == InitIcon /\ [][NextIcon]_vars

\* C18: every condition-code mapping is total: the result is never an
\* error, it is one WeatherConditionIcon, and it is Unknown for a code that
\* no arm of the provider's table names.
C18_MappingIsTotal ==
    last.op = "icon" =>
        /\ IsOk(last.res)
        /\ last.res.value \in WeatherConditionIcon
        /\ (~last.listed => last.res.value = "Unknown")

\* the same for the six mappings other than World Weather Online's
IconsOfTheOthersAreTotal ==
    (last.op = "icon" /\ last.provider # "WorldWeatherOnline") =>
        /\ IsOk(last.res)
        /\ last.res.value \in WeatherConditionIcon
        /\ (~last.listed => last.res.value = "Unknown")

\* World Weather Online's mapping is total on the texts that parse as a u16
IconOfNumericCodeIsTotal ==
    (last.op = "icon" /\ last.provider = "WorldWeatherOnline"
        /\ IsOk(parse_u16(last.code))) =>
        /\ IsOk(last.res)
        /\ last.res.value \in WeatherConditionIcon
        /\ (~last.listed => last.res.value = "Unknown")

\* ------------------------------------------------------------------------
\* Config::validate at the limits of the coordinate ranges: App::new and the
\* first call of get_weather, for configurations whose lat and lon are at,
\* just inside and just outside -90, 90, -180 and 180 (in 1/10000 degree)
\* ------------------------------------------------------------------------
LatChoices == {None} \cup {Some(l) : l \in {-900001, -900000, 515074, 900000, 900001}}
LonChoices == {None} \cup {Some(l) : l \in {-1800001, -1800000, -1278, 1800000, 1800001}}

ConfigsAtLimits(ps) ==
    {[providers |-> ps, api_keys |-> ks, city |-> c, lat |-> lat, lon |-> lon,
      show_city_name |-> s, live_mode |-> FALSE, use_geocoding_cache |-> FALSE,
      language |-> "en", units |-> "Metric"] :
        ks \in ApiKeyChoices(ps), c \in {None, Some(CitySpace)},
        lat \in LatChoices, lon \in LonChoices, s \in BOOLEAN}

InitAtLimits ==
    /\ \E ps \in ProviderLists : config \in ConfigsAtLimits(ps)
    /\ cache = EmptyCache
    /\ cache_dir = FALSE
    /\ provider = None
    /\ pc = "new"
    /\ tick = 1
    /\ error = None
    /\ configured = config.providers
    /\ log = <<>>
    /\ last = NotCalled

NextAtLimits == AppNew \/ RunIteration

SpecAtLimits == InitAtLimits /\ [][NextAtLimits]_vars

\* the pair of the configuration as it was given (App::new changes only
\* the provider list)
Pair == coordinates(config)
OutOfRange ==
    /\ IsSome(Pair)
    /\ \/ Unwrap(Pair)[1] < -900000 \/ Unwrap(Pair)[1] > 900000
       \/ Unwrap(Pair)[2] < -1800000 \/ Unwrap(Pair)[2] > 1800000
Validated == pc # "new"
\* App::new returned the error of validate: no provider was ever called
Rejected == pc = "exit_err" /\ last = NotCalled /\ log = <<>>
InvalidCoordinates(pair) == [kind |-> "InvalidCoordinates", lat |-> pair[1], lon |-> pair[2]]

\* C19 as stated: once validation has run, a configured pair outside the
\* ranges has failed it with InvalidCoordinates(lat, lon) and no provider
\* was called; a pair inside the ranges, limits included, was accepted.
C19_AsStated ==
    (Validated /\ IsSome(Pair)) =>
        IF OutOfRange
        THEN Rejected /\ error = Some(InvalidCoordinates(Unwrap(Pair)))
        ELSE ~Rejected

\* C19 (amended): a configured pair outside the ranges always fails
\* validation, before any provider is called, and the error is
\* InvalidCoordinates(lat, lon) unless an earlier check of validate fails
\* (the city name is to be shown without a city, no provider is listed, or
\* a key is missing); a pair inside the ranges, limits included, never
\* fails with InvalidCoordinates, and passes validation when those earlier
\* checks pass.
C19_CoordinateRange ==
    (Validated /\ IsSome(Pair)) =>
        LET earlier == \/ IsNone(config.city) /\ config.show_city_name
                       \/ configured = <<>>
                       \/ \E p \in KeyProviders :
                             Contains(configured, p) /\ p \notin config.api_keys
        IN  IF OutOfRange
            THEN /\ Rejected
                 /\ (~earlier => error = Some(InvalidCoordinates(Unwrap(Pair))))
                 /\ (earlier => Unwrap(error).kind \in {"InvalidConfiguration", "MissingApiKey"})
            ELSE /\ (Rejected => Unwrap(error).kind # "InvalidCoordinates")
                 /\ (~earlier => ~Rejected)

\* C19 witness: latitude 90.0001 with longitude 180 was rejected with
\* InvalidCoordinates(90.0001, 180)
C19_Witness ==
    /\ Pair = Some(<<900001, 1800000>>)
    /\ pc = "exit_err"
    /\ error = Some(InvalidCoordinates(<<900001, 1800000>>))
    /\ last = NotCalled

\* C19 witness: the pair (90, 180) passed validation and a provider was called
C19_WitnessLimit ==
    /\ Pair = Some(<<900000, 1800000>>)
    /\ last # NotCalled

\* the location parameters of a weather request are the pair (lat, lon):
\* as latitude and longitude, or as the text "lat,lon" World Weather Online
\* takes in q
SendsPair(query, lat, lon) ==
    \/ query = ByCoords(lat, lon)
    \/ query = ByName(<<ToString(lat), ",", ToString(lon)>>)

\* C20: whatever the adapter, when both coordinates and a city are
\* configured, the location sent in the weather request is the coordinate
\* pair, not the city.
C20_SameRuleForEveryAdapter ==
    [][(/\ AnAttempt
        /\ IsSome(coordinates(config))
        /\ IsSome(config.city)
        /\ IsSome(last'.query))
       => SendsPair(Unwrap(last'.query), Unwrap(config.lat), Unwrap(config.lon))]_vars

\* C21: the temperature, the feels-like temperature, the dew point and the
\* wind speed of a Weather that an adapter returned are in the configured
\* unit system, whatever the adapter and the system.
C21_ConfiguredUnits ==
    (last.res.kind = "Ok") =>
        LET m == last.res.value.measured
        IN  /\ m.temperature = TemperatureUnit(config.units)
            /\ m.feels_like = TemperatureUnit(config.units)
            /\ (IsSome(m.dew_point) => Unwrap(m.dew_point) = TemperatureUnit(config.units))
            /\ m.wind_speed = WindUnit(config.units)

\* the same for the adapters other than Yr, and for Yr with metric units
UnitsOfTheOthers ==
    (last.res.kind = "Ok" /\ (last.provider # "Yr" \/ config.units = "Metric")) =>
        LET m == last.res.value.measured
        IN  /\ m.temperature = TemperatureUnit(config.units)
            /\ m.feels_like = TemperatureUnit(config.units)
            /\ (IsSome(m.dew_point) => Unwrap(m.dew_point) = TemperatureUnit(config.units))
            /\ m.wind_speed = WindUnit(config.units)

\* ------------------------------------------------------------------------
\* display/formatter.rs: wind_deg_to_symbol
\* ------------------------------------------------------------------------
\* the arrows, named by where they point: down, down-left, left, up-left,
\* up, up-right, right, down-right
symbols_clockwise ==
    <<"down", "down_right", "right", "up_right", "up", "up_left", "left", "down_left">>

symbols == <<"down", "down_left", "left", "up_left", "up", "up_right", "right", "down_right">>

\* variant: round to the nearest integer, a half away from zero:
\* round((deg + 22.5) / 45) = floor((deg + 45) / 45)
wind_index_round(deg) == ((deg + 45) \div 45) % 8

\* ((deg as f32 + 22.5) / 45.0) as usize % 8: the cast truncates, and
\* floor((deg + 22.5) / 45) = floor((2 deg + 45) / 90). deg + 22.5 is exact
\* in f32 for a u16, and the quotient is at least 1/90 away from an integer,
\* far more than the rounding of the f32 division.
wind_index(deg) == ((2 * deg + 45) \div 90) % 8

wind_deg_to_symbol(deg) == symbols[wind_index(deg) + 1]

\* deg: u16
Degrees == 0..65535

InitWind ==
    /\ last = [op |-> "none"]
    /\ pc = "wind"
    /\ config = None
    /\ provider = None
    /\ cache = EmptyCache
    /\ cache_dir = FALSE
    /\ tick = 1
    /\ error = None
    /\ configured = <<>>
    /\ log = <<>>

\* the function is pure: one call in a behaviour
WindDegToSymbol ==
    /\ pc = "wind"
    /\ \E deg \in Degrees :
         last' = [op |-> "wind_deg_to_symbol", deg |-> deg, index |-> wind_index(deg),
                  symbol |-> wind_deg_to_symbol(deg)]
    /\ pc' = "done"
    /\ UNCHANGED <<config, provider, cache, cache_dir, tick, error, configured, log>>

NextWind == WindDegToSymbol

SpecWind == InitWind /\ [][NextWind]_vars

\* the call was made for a direction in [0, 360)
DirectionGiven == last.op = "wind_deg_to_symbol" /\ last.deg < 360

\* C22 as stated: for deg in [0, 360) the index is round((deg + 22.5) / 45)
\* mod 8; twice the rounded value r is within 1 of 2 (deg + 22.5) / 45, the
\* half rounded away from zero.
C22_AsStated ==
    DirectionGiven =>
        \E r \in 0..9 :
            /\ 90 * r - 45 <= 2 * last.deg + 45
            /\ 2 * last.deg + 45 < 90 * r + 45
            /\ last.index = r % 8

\* C22 (amended): for deg in [0, 360) the index is floor((deg + 22.5) / 45)
\* mod 8: the quotient is truncated, so that index k is chosen exactly for
\* the sector 45 k - 22.5 <= deg < 45 k + 22.5, the sector of 0 holding also
\* 337.5 <= deg < 360.
C22_WindIndex ==
    DirectionGiven =>
        /\ \E q \in 0..8 :
              /\ 45 * q <= last.deg + 22 /\ last.deg + 23 <= 45 * (q + 1)
              /\ last.index = q % 8
        /\ \A k \in 1..7 :
              last.index = k <=> (90 * k - 45 <= 2 * last.deg /\ 2 * last.deg < 90 * k + 45)
        /\ last.index = 0 <=> (2 * last.deg < 45 \/ 2 * last.deg >= 675)

\* C22 witness: 45 degrees, where rounding and truncating differ, has index 1
C22_Witness ==
    /\ DirectionGiven
    /\ last.deg = 45
    /\ last.index = 1

\* the multiple of 45 nearest to deg: no integer is half way between two
Nearest(deg) ==
    CHOOSE m \in {45 * (deg \div 45), 45 * (deg \div 45) + 45} : m - 22 <= deg /\ deg <= m + 22

\* every symbol is chosen for some direction in [0, 360)
EverySymbolChosen == \A i \in 1..8 : \E deg \in 0..359 : wind_deg_to_symbol(deg) = symbols[i]

\* C23: wind_deg_to_symbol gives every 16-bit degree one of the eight symbols
\* down, down-left, left, up-left, up, up-right, right, down-right: the
\* index stays in 0..7, the multiples of 45 from 0 to 315 map to the
\* successive symbols, every other degree maps to the symbol of the nearest
\* multiple of 45, 338..359 to the symbol of 0, and every symbol is the image
\* of some degree.
C23_EightSymbols ==
    /\ (last.op = "wind_deg_to_symbol" =>
          /\ last.index \in 0..7
          /\ last.symbol = symbols[last.index + 1]
          /\ Cardinality({i \in 1..8 : symbols[i] = last.symbol}) = 1
          /\ last.symbol = wind_deg_to_symbol(Nearest(last.deg))
          /\ (last.deg \in 338..359 => last.symbol = "down")
          /\ \A k \in 0..7 :
                last.deg = 45 * k =>
                    last.symbol = <<"down", "down_left", "left", "up_left", "up",
                                    "up_right", "right", "down_right">>[k + 1])
    /\ EverySymbolChosen

\* C23 witness: 338 degrees wraps around to the symbol of 0 degrees
C23_Witness ==
    /\ last.op = "wind_deg_to_symbol"
    /\ last.deg = 338
    /\ last.index = 0
    /\ last.symbol = "down"

\* ------------------------------------------------------------------------
\* weather/tools.rs in numbers. Temperatures are integers: an argument in
\* 1/100 degree, a result in 1/10 degree, the values in between in 1/10^7.
\* The f64 operations are exact to 16 digits; the integer ones below are
\* exact to 10^-4 degree, which decides the rounding whenever the result is
\* not within 10^-4 of a half of a tenth.
\* ------------------------------------------------------------------------
\* floor(n * 10^k / d) by long division; q and r are the quotient and the
\* remainder so far
RECURSIVE LongDivision(_, _, _, _)
LongDivision(q, r, d, k) ==
    IF k = 0 THEN q
    ELSE LongDivision(10 * q + (10 * r) \div d, (10 * r) % d, d, k - 1)

ScaledDiv(n, d, k) == LongDivision(n \div d, n % d, d, k)

\* f64::round: to the nearest integer, a half away from zero; x in 1/unit
Round(x, unit) ==
    IF x >= 0 THEN (x + unit \div 2) \div unit ELSE -((-x + unit \div 2) \div unit)

\* (c * 9.0 / 5.0) + 32.0, in 1/10^7 degree
c_to_f(c) == (c * 9) \div 5 + 320000000

\* (f - 32.0) * 5.0 / 9.0: f in 1/100 degree, the result in 1/10^5 degree
f_to_c(f) == ((f - 3200) * 5000) \div 9

\* (h / 100.0).ln() in 1/10^7, for the humidities of HumidityChoices
ln(h) ==
    CASE h = 50 -> -6931472
      [] h = 60 -> -5108256
      [] h = 70 -> -3566749

\* variant: the result is rounded to a whole degree
dew_point_whole(t, h, units) ==
    LET celsius == IF units = "Imperial" THEN f_to_c(t) ELSE 1000 * t
        gamma == 176250000 - ScaledDiv(428358, 24304000 + celsius, 10) + ln(h)
        ratio == ScaledDiv(gamma, 176250000 - gamma, 7)
        magnus == 243 * ratio + (4 * ratio) \div 100
        result == IF units = "Imperial" THEN c_to_f(magnus) ELSE magnus
    IN  10 * Round(result, 10000000)

\* dew_point(t, h, units), B = 17.625 and C = 243.04:
\*   gamma = (B * t) / (C + t) + ln(h / 100) = B - B * C / (C + t) + ln(h / 100)
\*   result = (C * gamma) / (B - gamma)
\*   (result * 10.0).round() / 10.0
\* with B * C = 4283.58, gamma and ratio = gamma / (B - gamma) in 1/10^7
dew_point(t, h, units) ==
    LET celsius == IF units = "Imperial" THEN f_to_c(t) ELSE 1000 * t
        gamma == 176250000 - ScaledDiv(428358, 24304000 + celsius, 10) + ln(h)
        ratio == ScaledDiv(gamma, 176250000 - gamma, 7)
        magnus == 243 * ratio + (4 * ratio) \div 100
        result == IF units = "Imperial" THEN c_to_f(magnus) ELSE magnus
    IN  Round(result, 1000000)

\* the arguments: 22.00 to 23.00 degrees Celsius, the same range in degrees
\* Fahrenheit, three humidities
CelsiusChoices == 2200..2300
FahrenheitChoices == 7160..7340
HumidityChoices == {50, 60, 70}

InitDewPoint ==
    /\ last = [op |-> "none"]
    /\ pc = "dew_point"
    /\ config = None
    /\ provider = None
    /\ cache = EmptyCache
    /\ cache_dir = FALSE
    /\ tick = 1
    /\ error = None
    /\ configured = <<>>
    /\ log = <<>>

\* the function is pure: one call in a behaviour
DewPoint ==
    /\ pc = "dew_point"
    /\ \E units \in Units, h \in HumidityChoices :
       \E t \in IF units = "Metric" THEN CelsiusChoices ELSE FahrenheitChoices :
         last' = [op |-> "dew_point", t |-> t, h |-> h, units |-> units,
                  result |-> dew_point(t, h, units)]
    /\ pc' = "done"
    /\ UNCHANGED <<config, provider, cache, cache_dir, tick, error, configured, log>>

NextDewPoint == DewPoint

SpecDewPoint == InitDewPoint /\ [][NextDewPoint]_vars

\* C24: dew_point(22.49, 60, metric) is 14.3 and dew_point(72.48, 60,
\* imperial) is 57.8; the result is a whole number of tenths; in metric
\* units it lies between the dew points of 22 and 23 degrees, and in
\* imperial units it is the Fahrenheit value of the metric result for the
\* same temperature, up to the two roundings (0.15 degree Fahrenheit).
C24_DewPointRounded ==
    last.op = "dew_point" =>
        /\ (last.t = 2249 /\ last.h = 60 /\ last.units = "Metric" => last.result = 143)
        /\ (last.t = 7248 /\ last.h = 60 /\ last.units = "Imperial" => last.result = 578)
        /\ (last.units = "Metric" =>
              /\ dew_point(2200, last.h, "Metric") <= last.result
              /\ last.result <= dew_point(2300, last.h, "Metric"))
        /\ (last.units = "Imperial" =>
              LET metric == dew_point(Round(f_to_c(last.t), 1000), last.h, "Metric")
                  d == 10 * last.result - (18 * metric + 3200)
              IN  -15 <= d /\ d <= 15)

\* C24 witness: the call dew_point(22.49, 60, metric) returned 14.3
C24_Witness ==
    /\ last.op = "dew_point"
    /\ last.t = 2249 /\ last.h = 60 /\ last.units = "Metric"
    /\ last.result = 143

\* C25: in live mode the fallback loop runs inside one tick. The process
\* goes to sleep only from an attempt that succeeded, in live mode; a
\* transiently failed attempt with a provider left is followed at once, in
\* the same tick, by the attempt of the next provider; a new tick begins
\* only from the sleep that follows a success; and the Weather displayed in
\* a tick is that of the first success of the tick, which is the last
\* attempt of the tick.
C25_FallbackInsideOneTick ==
    /\ [][/\ ((pc' = "sleep" /\ pc # "sleep") =>
                (config.live_mode /\ AnAttempt /\ last'.res.kind = "Ok"))
          /\ ((AnAttempt /\ last'.res.kind \in Transient /\ config.providers # <<>>) =>
                (pc' = "run" /\ tick' = tick))
          /\ (tick' # tick =>
                (/\ pc = "sleep" /\ pc' = "run"
                 /\ tick' = tick + 1
                 /\ log # <<>>
                 /\ log[Len(log)].kind = "Ok"
                 /\ log[Len(log)].tick = tick))]_vars
    /\ [](\A i, j \in 1..Len(log) :
            (i < j /\ log[i].tick = log[j].tick) => log[i].kind # "Ok")
    /\ [](\A i \in 1..Len(log) :
            (i < Len(log) /\ log[i].kind # "Ok") => log[i + 1].tick = log[i].tick)

\* C25 witness: live mode, the first provider failed transiently, the
\* second succeeded in the same tick, and the process sleeps
C25_Witness ==
    /\ config.live_mode
    /\ pc = "sleep"
    /\ Len(log) = 2
    /\ log[1].kind \in Transient
    /\ log[2].kind = "Ok"
    /\ log[1].tick = log[2].tick

\* the run is over: break after the display, exit(1) of display_error, or
\* an abort inside get_weather
Ended == pc \in {"exit_ok", "exit_err", "panic"}

\* C26: a run that is not live terminates. It makes at most as many
\* attempts as the validated list has providers; it ends with exit_ok right
\* after the first success, which is its last attempt, or with one reported
\* error after attempts that all failed, the earlier ones transiently.
C26_NonLiveTerminates ==
    /\ <>Ended
    /\ [](~config.live_mode /\ Len(log) <= Len(configured))
    /\ [](pc = "exit_ok" =>
            /\ log # <<>>
            /\ log[Len(log)].kind = "Ok"
            /\ \A i \in 1..(Len(log) - 1) : log[i].kind \in Transient
            /\ IsNone(error))
    /\ [](pc = "exit_err" =>
            /\ IsSome(error)
            /\ \A i \in 1..Len(log) : log[i].kind # "Ok"
            /\ \A i \in 1..(Len(log) - 1) : log[i].kind \in Transient
            /\ (log # <<>> => Unwrap(error).kind = log[Len(log)].kind))
    /\ [][(pc = "exit_ok" \/ pc = "exit_err") => (vars' = vars)]_vars

\* C26 witness: a list of two providers, both attempted, the run ended with
\* the Weather of the second
C26_Witness ==
    /\ ~config.live_mode
    /\ pc = "exit_ok"
    /\ Len(configured) = 2
    /\ Len(log) = 2
    /\ log[1].kind \in Transient
    /\ log[2].kind = "Ok"

\* C27: in live mode the session ends for good with the first attempt that
\* fails with an error that is not transient, or that fails transiently
\* when no provider is left in the list: that step reports the error of the
\* attempt and exits, in whatever tick it happens, and after the exit no
\* step changes anything, so no later tick begins.
C27_LiveSessionEndsOnError ==
    /\ [][(/\ config.live_mode
           /\ AnAttempt
           /\ IsErr(last'.res)
           /\ (last'.res.kind \notin Transient \/ config.providers = <<>>)) =>
            (/\ pc' = "exit_err"
             /\ IsSome(error')
             /\ Unwrap(error').kind = last'.res.kind
             /\ tick' = tick)]_vars
    /\ [][pc = "exit_err" => (vars' = vars)]_vars
    /\ []((config.live_mode /\ log # <<>> /\ pc = "exit_err") =>
            /\ log[Len(log)].kind # "Ok"
            /\ \A i \in 1..Len(log) : log[i].tick <= log[Len(log)].tick
            /\ tick = log[Len(log)].tick)

\* C27 witness: a live session whose first tick succeeded and whose second
\* tick ended the session with an error
C27_Witness ==
    /\ config.live_mode
    /\ pc = "exit_err"
    /\ tick = 2
    /\ Len(log) >= 2
    /\ log[1].kind = "Ok"
    /\ log[1].tick = 1
    /\ log[Len(log)].tick = 2
    /\ log[Len(log)].kind # "Ok"

\* C28: with caching enabled the cache is one for all providers. An attempt
\* whose geocoding request succeeded leaves the resolved Location in the
\* file of (city, language); that file is never changed again during the
\* session; and while it is there every attempt, of whichever provider,
\* sends no geocoding request, and an attempt that resolves the city reads
\* the file and takes the Location from it.
C28_CacheSharedByProviders ==
    /\ [][(/\ AnAttempt
           /\ config.use_geocoding_cache
           /\ last'.geo > 0
           /\ last'.geo_answer = "Ok") =>
            (/\ IsSome(last'.resolved)
             /\ cache'[CityPath] = JsonFile(Unwrap(last'.resolved)))]_vars
    /\ [][(CityGiven /\ cache[CityPath].kind = "json") =>
            (cache'[CityPath] = cache[CityPath])]_vars
    /\ [][(/\ AnAttempt
           /\ config.use_geocoding_cache
           /\ CityGiven
           /\ cache[CityPath].kind = "json") =>
            (/\ last'.geo = 0
             /\ ((Unwrap(provider) \in LookUpCityProviders /\ IsNone(coordinates(config))) =>
                    (/\ last'.reads > 0
                     /\ last'.resolved = Some(cache[CityPath].location))))]_vars

\* C28 witness: the first provider geocoded the city and then failed
\* transiently; the second provider, another one, resolved the city from
\* the file the first one wrote, without a request, and succeeded
C28_Witness ==
    /\ config.use_geocoding_cache
    /\ Len(log) = 2
    /\ log[1].provider \in LookUpCityProviders
    /\ log[2].provider \in LookUpCityProviders
    /\ log[1].provider # log[2].provider
    /\ log[1].kind \in Transient
    /\ log[2].kind = "Ok"
    /\ last.geo = 0
    /\ last.reads > 0
    /\ last.writes = 0
    /\ CityGiven
    /\ cache[CityPath].kind = "json"
    /\ cache[CityPath].location \in EnvLocations(config)
    /\ last.resolved = Some(cache[CityPath].location)

\* what a lookup of key returns from the files c
Lookup(c, key) == get_cached_location(c, key.city, key.language)

\* C29: the cache entry of a key is determined by its image alone, the city
\* with every space replaced by '_' and the language code. Keys with the
\* same image always look up the same thing, which after a store under one
\* of them is the Location stored; a store under a key, by cache_location or
\* by a resolution, changes no lookup of a key with another image.
C29_EntryDeterminedByImage ==
    /\ [](\A k1, k2 \in CacheKeys :
            Image(k1) = Image(k2) => Lookup(cache, k1) = Lookup(cache, k2))
    /\ [](last.op = "cache_location" =>
            \A k \in CacheKeys :
                Image(k) = Image(Unwrap(last.key)) =>
                    Lookup(cache, k) = Ok(log.latest[Image(Unwrap(last.key))]))
    /\ [][(last'.op = "cache_location" \/ last'.op = "lookup_city_cached") =>
            \A k \in CacheKeys :
                Image(k) # Image(Unwrap(last'.key)) =>
                    Lookup(cache', k) = Lookup(cache, k)]_vars

\* C29 witness: a Location was stored under "a b" only, in one language
\* only; the lookup of "a_b" in this language returned it, and the lookup
\* of either city in the other language is a miss
C29_Witness ==
    \E l \in CacheLanguages :
        LET spaced == [city |-> CitySpace, language |-> l]
            under == [city |-> CityUnder, language |-> l]
        IN  /\ LookedUp(under)
            /\ IsSome(log.by_key[spaced])
            /\ \A k \in CacheKeys \ {spaced} : IsNone(log.by_key[k])
            /\ last.res = Ok(log.by_key[spaced])
            /\ \A k \in CacheKeys : k.language # l => Lookup(cache, k) = Ok(None)

\* C30: an attempt of Yr with a non-empty city and no coordinate pair
\* returns InvalidConfiguration without a geocoding request, a weather
\* request, a UV request or a cache access, and the run ends there with
\* this error: the provider list is left as it was, whatever it still
\* holds, and no provider of it is attempted.
C30_YrNeedsCoordinates ==
    /\ [][(/\ AnAttempt
           /\ Unwrap(provider) = "Yr"
           /\ CityGiven
           /\ IsNone(coordinates(config))) =>
            (/\ last'.res = Err("InvalidConfiguration")
             /\ last'.geo = 0
             /\ last'.fetch = 0
             /\ last'.uv = 0
             /\ last'.reads = 0
             /\ last'.writes = 0
             /\ cache' = cache
             /\ pc' = "exit_err"
             /\ error' = Some(Err("InvalidConfiguration"))
             /\ config' = config)]_vars
    /\ []((pc = "exit_err" /\ last.provider = "Yr" /\ last.res = Err("InvalidConfiguration")) =>
            /\ log[Len(log)].provider = "Yr"
            /\ Len(config.providers) = Len(configured) - log[Len(log)].index)
    /\ [][pc = "exit_err" => (vars' = vars)]_vars

\* C30 witness: Yr was the first of two providers, the city was given
\* without coordinates, and the run ended with InvalidConfiguration while
\* the second provider was still in the list
C30_Witness ==
    /\ pc = "exit_err"
    /\ Len(log) = 1
    /\ last.provider = "Yr"
    /\ CityGiven
    /\ IsNone(coordinates(config))
    /\ error = Some(Err("InvalidConfiguration"))
    /\ last.fetch = 0
    /\ Len(config.providers) = 1

====
